---------------------------- MODULE Spec2Model ----------------------------
(***************************************************************************)
(* Model of the sync engine of martinshumberto/sync-manager:               *)
(*   - the upload pipeline      (agent/internal/uploader/uploader.go)      *)
(*   - the change watcher       (agent/internal/watcher/watcher.go)        *)
(*   - the orchestrator         (agent/internal/sync/manager.go)           *)
(*   - the second orchestrator  (agent/internal/syncmanager/syncmanager.go)*)
(* Paths are sequences of names, names and glob patterns are sequences of  *)
(* characters, so that filepath.Rel and filepath.Match are computed.       *)
(***************************************************************************)
EXTENDS Integers, Sequences, FiniteSets, TLC

(***************************************************************************)
(* Bounds of the model and constants of the program.                       *)
(***************************************************************************)
\* number of tasks the callers submit in the pipeline specification
MaxTasks == 1
\* configured max concurrency: size of the worker pool
MaxConcurrency == 2
\* modification times are 1 .. MaxTime
MaxTime == 3
\* number of times the periodic timer fires
MaxTicks == 1
\* number of changes the user makes to the file tree
MaxEnvOps == 1
\* ticks of the clock to the second
TicksPerSecond == 2
\* the clock stops at MaxClock
MaxClock == 6
\* number of Read calls made on the throttled reader
MaxReads == 4
\* size of the largest buffer given to Read
MaxBuf == 4
\* largest quota of the throttled reader, in bytes per second
MaxQuota == 3
\* number of handlers registered with the watcher
MaxHandlers == 2
\* the workers take the tasks numbered 1 .. MaxRecv of a full queue
MaxRecv == 3
\* SyncNow is called while fewer than MaxNowTasks tasks have been queued
MaxNowTasks == 2
\* number of SyncAll calls followed
MaxSyncAlls == 3
\* capacity of taskQueue
QueueCap == 1000
\* capacity of resultChan
ResultCap == 100
\* retry ceiling of the worker
MaxRetries == 3

Workers == 1 .. MaxConcurrency

(***************************************************************************)
(* Strings and paths.  A name or a glob pattern is a sequence of characters,*)
(* an absolute path is the sequence of its names; a relative path is a     *)
(* sequence of names too, and may hold the names "." and "..".             *)
(***************************************************************************)
Slash == "/"
Dot == << "." >>
DotDot == << ".", "." >>

\* the names used by the model's file tree
n_r == << "r" >>
n_s == << "s" >>
n_q == << "q" >>
n_m == << "m" >>
n_f == << "f" >>
n_a_txt == << "a", ".", "t", "x", "t" >>
n_b_tmp == << "b", ".", "t", "m", "p" >>
n_c_txt == << "c", ".", "t", "x", "t" >>
n_d_txt == << "d", ".", "t", "x", "t" >>

\* the glob patterns used by the model's folders
p_tmp == << "*", ".", "t", "m", "p" >>
p_s == << "s" >>
p_bad == << "[" >>

\* The path as the program prints it: names joined by the separator.
RECURSIVE JoinSlash(_)
JoinSlash(names) ==
    IF names = << >> THEN << >>
    ELSE IF Len(names) = 1 THEN names[1]
    ELSE names[1] \o << Slash >> \o JoinSlash(Tail(names))

\* Number of leading names two paths share.
RECURSIVE CommonPrefixLen(_, _)
CommonPrefixLen(a, b) ==
    IF a = << >> \/ b = << >> \/ a[1] # b[1] THEN 0
    ELSE 1 + CommonPrefixLen(Tail(a), Tail(b))

\* filepath.Rel(base, targ) for two clean absolute paths: ".." for every name
\* of base below the common prefix, then the rest of targ; "." when equal.
Rel(base, targ) ==
    LET k == CommonPrefixLen(base, targ)
        ups == [i \in 1 .. (Len(base) - k) |-> DotDot]
        rest == SubSeq(targ, k + 1, Len(targ))
    IN  IF ups \o rest = << >> THEN << Dot >> ELSE ups \o rest

\* filepath.Join(dir, rel) followed by Clean: "." and ".." are resolved.
RECURSIVE JoinClean(_, _)
JoinClean(dir, rel) ==
    IF rel = << >> THEN dir
    ELSE IF rel[1] = Dot THEN JoinClean(dir, Tail(rel))
    ELSE IF rel[1] = DotDot
         THEN JoinClean(IF dir = << >> THEN dir ELSE SubSeq(dir, 1, Len(dir) - 1), Tail(rel))
    ELSE JoinClean(Append(dir, rel[1]), Tail(rel))

\* p is d or lies beneath d.
Under(p, d) == Len(p) >= Len(d) /\ SubSeq(p, 1, Len(d)) = d

\* filepath.Match(pattern, name): "*" matches any run of non-separator
\* characters, "?" one of them, any other character itself.  The patterns of
\* the model use "[" only unclosed, which is a malformed pattern: the result
\* is then "err" (ErrBadPattern) whatever the name.
BadPattern(pattern) == \E i \in 1 .. Len(pattern) : pattern[i] = "["

RECURSIVE GlobMatch(_, _)
GlobMatch(pattern, name) ==
    IF pattern = << >> THEN name = << >>
    ELSE IF pattern[1] = "*"
         THEN \E k \in 0 .. Len(name) :
                  /\ \A i \in 1 .. k : name[i] # Slash
                  /\ GlobMatch(Tail(pattern), SubSeq(name, k + 1, Len(name)))
    ELSE IF pattern[1] = "?"
         THEN name # << >> /\ name[1] # Slash /\ GlobMatch(Tail(pattern), Tail(name))
    ELSE name # << >> /\ name[1] = pattern[1] /\ GlobMatch(Tail(pattern), Tail(name))

Match(pattern, name) ==
    IF BadPattern(pattern) THEN "err"
    ELSE IF GlobMatch(pattern, name) THEN "true" ELSE "false"

\* watcher.ShouldExclude(path, patterns): some well-formed pattern matches
\* the whole relative path; malformed patterns are skipped.
ShouldExclude(relPath, patterns) ==
    \E i \in 1 .. Len(patterns) : Match(patterns[i], JoinSlash(relPath)) = "true"

\* watcher.isSubdirectory(child, parent) and sync.isSubPath(parent, child):
\* the relative path is not exactly "..".
isSubdirectory(child, parent) == JoinSlash(Rel(parent, child)) # DotDot

isSubPath(parent, child) == JoinSlash(Rel(parent, child)) # DotDot

(***************************************************************************)
(* The upload pipeline.                                                    *)
(***************************************************************************)
VARIABLES
    taskQueue,     \* u.taskQueue: buffered channel of UploadTask
    queueClosed,   \* close(u.taskQueue) has happened
    resultChan,    \* u.resultChan: buffered channel of UploadResult
    resultClosed,  \* close(u.resultChan) has happened
    ctxDone,       \* u.ctx has been cancelled
    running,       \* u.running
    wpc,           \* position of each worker goroutine
    wtask,         \* the task a worker holds
    wres,          \* the result a worker holds
    stopPc,        \* position of the goroutine inside Uploader.Stop
    panicked,      \* the process crashed (send on / close of a closed channel)
    lastRet,       \* return value of the last QueueUpload / QueueFile call
    nextId,        \* history: number of tasks accepted so far
    attempts,      \* history: outcomes of the processUpload calls, per task
    stopsDone,     \* history: number of Stop calls that returned
    calls,         \* history: number of QueueUpload calls made
    acceptedAtStop \* history: tasks accepted when the last Stop began

upVars == << taskQueue, queueClosed, resultChan, resultClosed, ctxDone, running,
             wpc, wtask, wres, stopPc, panicked, lastRet, nextId, attempts, stopsDone, calls, acceptedAtStop >>

NoTask == [id |-> 0, FilePath |-> << >>, Key |-> << >>, RetryCount |-> 0]
NoResult == [id |-> 0, Success |-> FALSE, RetryCount |-> 0]

UploaderInit ==
    /\ taskQueue = << >>
    /\ queueClosed = FALSE
    /\ resultChan = << >>
    /\ resultClosed = FALSE
    /\ ctxDone = FALSE
    /\ running = FALSE
    /\ wpc = [w \in Workers |-> "off"]
    /\ wtask = [w \in Workers |-> NoTask]
    /\ wres = [w \in Workers |-> NoResult]
    /\ stopPc = "idle"
    /\ panicked = FALSE
    /\ lastRet = "none"
    /\ nextId = 0
    /\ attempts = << >>
    /\ stopsDone = 0
    /\ calls = 0
    /\ acceptedAtStop = 0

\* The task record QueueFile / a caller builds: RetryCount 0.
NewTask(id, filePath, key) ==
    [id |-> id, FilePath |-> filePath, Key |-> key, RetryCount |-> 0]

\* Effect of QueueUpload on the channel: select { case taskQueue <- task ; default }.
\* A send on a closed channel is a ready case that panics.
QueueUploadOffByOne(filePath, key) ==
    /\ ~panicked
    /\ calls' = calls + 1
    /\ IF Len(taskQueue) < QueueCap - 1
       THEN /\ nextId' = nextId + 1
            /\ taskQueue' = Append(taskQueue, NewTask(nextId + 1, filePath, key))
            /\ attempts' = Append(attempts, << >>)
            /\ lastRet' = "nil"
       ELSE /\ lastRet' = "queue full"
            /\ UNCHANGED << nextId, taskQueue, attempts >>
    /\ UNCHANGED panicked

QueueUpload(filePath, key) ==
    /\ ~panicked
    /\ calls' = calls + 1
    /\ IF queueClosed
       THEN /\ panicked' = TRUE
            /\ lastRet' = "panic"
            /\ UNCHANGED << nextId, taskQueue, attempts >>
       ELSE /\ UNCHANGED panicked
            /\ IF Len(taskQueue) < QueueCap
               THEN /\ nextId' = nextId + 1
                    /\ taskQueue' = Append(taskQueue, NewTask(nextId + 1, filePath, key))
                    /\ attempts' = Append(attempts, << >>)
                            /\ lastRet' = "nil"
               ELSE /\ lastRet' = "queue full"
                    /\ UNCHANGED << nextId, taskQueue, attempts >>


\* Uploader.Start: under the mutex; a no-op when running, else one goroutine
\* per worker slot.
UploaderStart ==
    /\ ~panicked
    /\ stopPc = "idle"
    /\ IF running
       THEN UNCHANGED << running, wpc >>
       ELSE /\ running' = TRUE
            /\ wpc' = [w \in Workers |-> "recv"]
    /\ UNCHANGED << taskQueue, queueClosed, resultChan, resultClosed, ctxDone,
                    wtask, wres, stopPc, panicked, lastRet, nextId, attempts, stopsDone, calls, acceptedAtStop >>

\* for task := range u.taskQueue: take the head, or leave the loop when the
\* channel is closed and drained.
WorkerRecv(w) ==
    /\ ~panicked
    /\ wpc[w] = "recv"
    /\ IF taskQueue # << >>
       THEN /\ wtask' = [wtask EXCEPT ![w] = Head(taskQueue)]
            /\ taskQueue' = Tail(taskQueue)
            /\ wpc' = [wpc EXCEPT ![w] = "got"]
       ELSE /\ queueClosed
            /\ wpc' = [wpc EXCEPT ![w] = "exited"]
            /\ UNCHANGED << taskQueue, wtask >>
    /\ UNCHANGED << queueClosed, resultChan, resultClosed, ctxDone, running, wres,
                    stopPc, panicked, lastRet, nextId, attempts, stopsDone, calls, acceptedAtStop >>

\* select { case <-ctx.Done(): return ; default: result := processUpload(task) }
\* The outcome of processUpload (file opened, hashed, stored) is the
\* environment's: ok \in BOOLEAN.
WorkerProcess(w, ok) ==
    /\ ~panicked
    /\ wpc[w] = "got"
    /\ IF ctxDone
       THEN /\ ~ok
            /\ wpc' = [wpc EXCEPT ![w] = "exited"]
            /\ wtask' = [wtask EXCEPT ![w] = NoTask]
            /\ UNCHANGED << wres, attempts >>
       ELSE /\ attempts' = [attempts EXCEPT ![wtask[w].id] = Append(@, ok)]
            /\ wres' = [wres EXCEPT ![w] = [id |-> wtask[w].id, Success |-> ok,
                                           RetryCount |-> wtask[w].RetryCount]]
            /\ wpc' = [wpc EXCEPT ![w] = "send"]
            /\ UNCHANGED wtask
    /\ UNCHANGED << taskQueue, queueClosed, resultChan, resultClosed, ctxDone,
                    running, stopPc, panicked, lastRet, nextId, stopsDone, calls, acceptedAtStop >>

\* What the worker does once its result is sent: retry when the upload failed
\* and RetryCount < 3 (RetryCount++), else back to the range loop.
AfterSendNoRetry(w) ==
    /\ wpc' = [wpc EXCEPT ![w] = "recv"]
    /\ wtask' = [wtask EXCEPT ![w] = NoTask]
    /\ wres' = [wres EXCEPT ![w] = NoResult]

AfterSendRetryLE(w) ==
    IF ~wres[w].Success /\ wtask[w].RetryCount <= MaxRetries
    THEN /\ wtask' = [wtask EXCEPT ![w].RetryCount = @ + 1]
         /\ wpc' = [wpc EXCEPT ![w] = "backoff"]
         /\ wres' = [wres EXCEPT ![w] = NoResult]
    ELSE AfterSendNoRetry(w)

\* a worker that also retries a task whose upload succeeded
AfterSendRetrySucceeded(w) ==
    IF wtask[w].RetryCount < MaxRetries
    THEN /\ wtask' = [wtask EXCEPT ![w].RetryCount = @ + 1]
         /\ wpc' = [wpc EXCEPT ![w] = "backoff"]
         /\ wres' = [wres EXCEPT ![w] = NoResult]
    ELSE AfterSendNoRetry(w)

AfterSend(w) ==
    IF ~wres[w].Success /\ wtask[w].RetryCount < MaxRetries
    THEN /\ wtask' = [wtask EXCEPT ![w].RetryCount = @ + 1]
         /\ wpc' = [wpc EXCEPT ![w] = "backoff"]
         /\ wres' = [wres EXCEPT ![w] = NoResult]
    ELSE AfterSendNoRetry(w)

\* select { case u.resultChan <- result ; case <-u.ctx.Done(): return }
WorkerSendResult(w) ==
    /\ ~panicked
    /\ wpc[w] = "send"
    /\ \/ /\ resultClosed
          /\ panicked' = TRUE
          /\ UNCHANGED << resultChan, wpc, wtask, wres >>
       \/ /\ ~resultClosed
          /\ Len(resultChan) < ResultCap
          /\ resultChan' = Append(resultChan, wres[w])
          /\ AfterSend(w)
          /\ UNCHANGED panicked
       \/ /\ ctxDone
          /\ wpc' = [wpc EXCEPT ![w] = "exited"]
          /\ wtask' = [wtask EXCEPT ![w] = NoTask]
          /\ wres' = [wres EXCEPT ![w] = NoResult]
          /\ UNCHANGED << resultChan, panicked >>
    /\ UNCHANGED << taskQueue, queueClosed, resultClosed, ctxDone, running,
                    stopPc, lastRet, nextId, attempts, stopsDone, calls, acceptedAtStop >>

\* select { case <-time.After(backoff): ... ; case <-u.ctx.Done(): return }
WorkerBackoff(w) ==
    /\ ~panicked
    /\ wpc[w] = "backoff"
    /\ \/ /\ wpc' = [wpc EXCEPT ![w] = "requeue"]
          /\ UNCHANGED wtask
       \/ /\ ctxDone
          /\ wpc' = [wpc EXCEPT ![w] = "exited"]
          /\ wtask' = [wtask EXCEPT ![w] = NoTask]
    /\ UNCHANGED << taskQueue, queueClosed, resultChan, resultClosed, ctxDone,
                    running, wres, stopPc, panicked, lastRet, nextId, attempts, stopsDone, calls, acceptedAtStop >>

\* select { case u.taskQueue <- task ; case <-u.ctx.Done(): return }
WorkerRequeue(w) ==
    /\ ~panicked
    /\ wpc[w] = "requeue"
    /\ \/ /\ queueClosed
          /\ panicked' = TRUE
          /\ UNCHANGED << taskQueue, wpc, wtask >>
       \/ /\ ~queueClosed
          /\ Len(taskQueue) < QueueCap
          /\ taskQueue' = Append(taskQueue, wtask[w])
          /\ wpc' = [wpc EXCEPT ![w] = "recv"]
          /\ wtask' = [wtask EXCEPT ![w] = NoTask]
          /\ UNCHANGED panicked
       \/ /\ ctxDone
          /\ wpc' = [wpc EXCEPT ![w] = "exited"]
          /\ wtask' = [wtask EXCEPT ![w] = NoTask]
          /\ UNCHANGED << taskQueue, panicked >>
    /\ UNCHANGED << queueClosed, resultChan, resultClosed, ctxDone, running, wres,
                    stopPc, lastRet, nextId, attempts,
                    stopsDone, calls, acceptedAtStop >>

\* Uploader.Stop, statement by statement (the mutex is held throughout):
\*   if !running return ; cancel()
UploaderStopCancel ==
    /\ ~panicked
    /\ stopPc = "idle"
    /\ IF running
       THEN /\ ctxDone' = TRUE
            /\ stopPc' = "close"
            /\ acceptedAtStop' = nextId
       ELSE UNCHANGED << ctxDone, stopPc, acceptedAtStop >>
    /\ UNCHANGED << taskQueue, queueClosed, resultChan, resultClosed, running, wpc,
                    wtask, wres, panicked, lastRet, nextId, attempts, stopsDone, calls >>

\*   close(u.taskQueue)
UploaderStopCloseQueue ==
    /\ ~panicked
    /\ stopPc = "close"
    /\ IF queueClosed
       THEN /\ panicked' = TRUE
            /\ UNCHANGED << queueClosed, stopPc >>
       ELSE /\ queueClosed' = TRUE
            /\ stopPc' = "wait"
            /\ UNCHANGED panicked
    /\ UNCHANGED << taskQueue, resultChan, resultClosed, ctxDone, running, wpc,
                    wtask, wres, lastRet, nextId, attempts,
                    stopsDone, calls, acceptedAtStop >>

\* a Stop that closes the result stream without waiting for the workers
UploaderStopFinishNoWait ==
    /\ ~panicked
    /\ stopPc = "wait"
    /\ IF resultClosed
       THEN /\ panicked' = TRUE
            /\ UNCHANGED << resultClosed, running, stopPc, stopsDone >>
       ELSE /\ resultClosed' = TRUE
            /\ running' = FALSE
            /\ stopPc' = "idle"
            /\ stopsDone' = stopsDone + 1
            /\ UNCHANGED panicked
    /\ UNCHANGED << taskQueue, queueClosed, resultChan, ctxDone, wpc, wtask, wres,
                    lastRet, nextId, attempts, calls, acceptedAtStop >>

\*   u.workers.Wait() ; close(u.resultChan) ; u.running = false
UploaderStopFinish ==
    /\ ~panicked
    /\ stopPc = "wait"
    /\ \A w \in Workers : wpc[w] = "exited"
    /\ IF resultClosed
       THEN /\ panicked' = TRUE
            /\ UNCHANGED << resultClosed, running, stopPc, stopsDone >>
       ELSE /\ resultClosed' = TRUE
            /\ running' = FALSE
            /\ stopPc' = "idle"
            /\ stopsDone' = stopsDone + 1
            /\ UNCHANGED panicked
    /\ UNCHANGED << taskQueue, queueClosed, resultChan, ctxDone, wpc, wtask, wres,
                    lastRet, nextId, attempts, calls, acceptedAtStop >>

(***************************************************************************)
(* The file system, the watcher and the two orchestrators.                 *)
(*                                                                         *)
(* fsDirs and fsFiles are the local file tree; watchedPaths, excludes and  *)
(* events are the FileWatcher (events is the queue of fsnotify events not  *)
(* yet taken by the watch loop).  folders is the registry of the sync      *)
(* package's SyncManager, folderStates the registry of the syncmanager     *)
(* package's SyncManager; both share the configuration (cfgFolders is      *)
(* config.Folders in memory, savedFolders what the configuration file      *)
(* holds) and the watcher.                                                 *)
(***************************************************************************)
VARIABLES
    fsDirs,        \* the directories that exist
    fsFiles,       \* existing regular file -> [mtime, content]
    watcher,       \* "nil", or "new" once NewFileWatcher has run
    watching,      \* the watch loop has been started
    watchedPaths,  \* FileWatcher.watchedPaths
    excludes,      \* FileWatcher.excludes: root -> patterns
    events,        \* fsnotify events waiting for the watch loop
    folders,       \* sync.SyncManager.folders: id -> FolderSync
    folderStates,  \* syncmanager.SyncManager.folderStates: id -> FolderState
    cfgFolders,    \* config.Folders
    cfgPathSet,    \* the configuration knows its file path
    savedFolders,  \* the folders in the configuration file
    state,         \* sync.SyncManager.state
    opRet,         \* what the last folder operation returned
    syncPc,        \* position of each full-sync goroutine
    syncTodo,      \* the folders it still has to go through
    syncCur,       \* the folder it is syncing
    walkTodo,      \* the files its walk still has to visit
    ticks,         \* number of times the periodic timer has fired
    dlTodo,        \* the remote objects it still has to reconcile
    dlLocal,       \* its map of local files
    dlErr,         \* what the last download returned
    lastCtl,       \* the last of PauseSync and ResumeSync to be called
    remote,        \* the remote store: key -> [LastModified, content]
    envOps         \* number of changes made by the user to the file tree

fsVars == << fsDirs, fsFiles, envOps >>
watchVars == << watcher, watching, watchedPaths, excludes, events >>
regVars == << folders, folderStates, cfgFolders, cfgPathSet, savedFolders, opRet >>
scanVars == << syncPc, syncTodo, syncCur, walkTodo, dlTodo, dlLocal, dlErr, ticks >>
syncVars == << fsVars, watchVars, regVars, scanVars, state, lastCtl, remote >>

\* ---- the throttled reader ----------------------------------------------
VARIABLES
    clock,          \* time.Now()
    bytesPerSec,    \* throttledReader.bytesPerSec
    bytesThisSec,   \* throttledReader.bytesThisSec
    lastTimestamp,  \* throttledReader.lastTimestamp
    readRet,        \* what the last Read returned: [n, len], n = -1 before any
    reads           \* number of Read calls made

readerVars == << clock, bytesPerSec, bytesThisSec, lastTimestamp, readRet, reads >>


\* ---- the watcher's dispatch loop ----------------------------------------
VARIABLES
    handlers,   \* FileWatcher.handlers
    hTodo,      \* the handlers the loop still has to call for its event
    taken,      \* number of events the loop has taken
    regAtTake,  \* for each event taken, the handlers registered at that moment
    hLog        \* the handler calls made: [ev, h], ev the number of the event

dispatchVars == << handlers, hTodo, taken, regAtTake, hLog >>

\* ---- Stop of the orchestrator -------------------------------------------
VARIABLES
    smCancelled,  \* the context made by Start has been cancelled
    stopChan,     \* sync.SyncManager.stopChan: "open" or "closed"
    stopRet       \* what Stop returned: "none" before it has

stopVars == << smCancelled, stopChan, stopRet >>

\* ---- the cumulative statistics and the orchestrator's lock ---------------
VARIABLES
    errors,    \* sync.SyncManager.stats.Errors
    accesses   \* the accesses made to the folder table and to the statistics by
               \* the event handler, the full sync and the download loop, each
               \* with the mode in which sm.mu was held: [by, what, lock]

statVars == << errors, accesses >>

\* ---- SyncAll of the syncmanager package ----------------------------------
VARIABLES
    status,          \* syncmanager.SyncManager.status
    syncInProgress,  \* syncmanager.SyncManager.syncInProgress
    allPc,           \* position of each caller of SyncAll
    allTodo,         \* the folders whose goroutine it has launched and not yet run
    allScan,         \* the folders its goroutines are inside syncFolder for
    allRet,          \* what its last SyncAll returned: "none" before it has
    allCalls         \* number of SyncAll calls made

syncAllVars == << status, syncInProgress, allPc, allTodo, allScan, allRet, allCalls >>

extVars == << readerVars, dispatchVars, stopVars, statVars, syncAllVars >>

\* ---- finite maps -------------------------------------------------------
EmptyMap == << >>
Put(f, k, v) == [x \in (DOMAIN f) \cup {k} |-> IF x = k THEN v ELSE f[x]]
Del(f, k) == [x \in (DOMAIN f) \ {k} |-> f[x]]

\* ---- the file tree -----------------------------------------------------
Root == << >>
R == << n_r >>
RS == << n_r, n_s >>
Q == << n_q >>
M == << n_m >>
F == << n_f >>
R_a == << n_r, n_a_txt >>
R_b == << n_r, n_b_tmp >>
RS_c == << n_r, n_s, n_c_txt >>
Q_d == << n_q, n_d_txt >>

\* every regular file the model knows, in the order filepath.Walk visits them
AllFiles == << F, Q_d, R_a, R_b, RS_c >>

Parent(p) == SubSeq(p, 1, Len(p) - 1)
Exists(dirs, files, p) == p \in dirs \/ p \in DOMAIN files

\* the ancestors of p, p included, at or below d
Between(d, p) == {SubSeq(p, 1, n) : n \in Len(d) .. Len(p)}

\* os.MkdirAll(p): fails when p or one of its ancestors is a regular file,
\* otherwise every missing directory down to p is created.
MkdirAllOk(files, p) == \A a \in Between(Root, p) : a \notin DOMAIN files
MkdirAll(dirs, p) == dirs \cup Between(Root, p)

\* ---- watcher.FileWatcher, as functions on [paths, excl] ----------------
WatcherRec(paths, excl) == [paths |-> paths, excl |-> excl]

\* FileWatcher.shouldExclude(rootPath, path)
shouldExclude(excl, rootPath, path) ==
    IF rootPath \in DOMAIN excl
    THEN ShouldExclude(Rel(rootPath, path), excl[rootPath])
    ELSE FALSE

\* FileWatcher.WatchPath(path, true, patterns) fails when Stat fails
WatchPathOk(dirs, files, path) == Exists(dirs, files, path)

\* FileWatcher.WatchPath(path, true, patterns): the patterns are stored when
\* there are some; a directory is walked and every directory found is
\* registered, an excluded directory being skipped with its subtree; a file
\* is registered alone.
WatchPath(w, dirs, files, path, patterns) ==
    IF ~WatchPathOk(dirs, files, path) THEN w
    ELSE LET excl == IF Len(patterns) > 0 THEN Put(w.excl, path, patterns) ELSE w.excl
             walked == {d \in dirs : /\ Under(d, path)
                                     /\ \A e \in Between(path, d) : ~shouldExclude(excl, path, e)}
         IN  IF path \in dirs
             THEN WatcherRec(w.paths \cup walked, excl)
             ELSE WatcherRec(w.paths \cup {path}, excl)

\* a RemovePath that unregisters the path alone and leaves its subdirectories
RemovePathRootOnly(w, path) ==
    WatcherRec(w.paths \ {path},
               IF path \in DOMAIN w.excl THEN Del(w.excl, path) ELSE w.excl)

\* FileWatcher.RemovePath(path)
RemovePath(w, path) ==
    WatcherRec({x \in w.paths : ~(x = path \/ isSubdirectory(x, path))},
               IF path \in DOMAIN w.excl THEN Del(w.excl, path) ELSE w.excl)

\* FileWatcher.AddFolder, RemoveFolder, WatchDirectory, UnwatchDirectory
AddFolderW(w, dirs, files, path, patterns) == WatchPath(w, dirs, files, path, patterns)
RemoveFolderW(w, path) == RemovePath(w, path)
WatchDirectory(w, dirs, files, path) == WatchPath(w, dirs, files, path, << >>)
UnwatchDirectory(w, path) == RemovePath(w, path)

\* the watcher of the current state
W == WatcherRec(watchedPaths, excludes)

\* fsnotify reports a change of p to a watcher of p or of p's directory
Reported(paths, p) == p \in paths \/ (p # Root /\ Parent(p) \in paths)
Notify(paths, evs, op, p) ==
    IF Reported(paths, p) THEN Append(evs, [Op |-> op, Name |-> p]) ELSE evs

(***************************************************************************)
(* The configuration (package config).                                     *)
(***************************************************************************)
SyncFolder(localPath, remotePath, patterns, enabled) ==
    [LocalPath |-> localPath, RemotePath |-> remotePath,
     ExcludePatterns |-> patterns, Enabled |-> enabled]

\* DefaultConfig(): no folder, and no file path
DefaultConfigFolders == EmptyMap

\* LoadConfig(filePath): the defaults when no file exists at filePath,
\* otherwise what the file holds.
LoadConfig(fileExists, fileFolders) ==
    IF ~fileExists THEN DefaultConfigFolders ELSE fileFolders

\* SaveConfig(cfg) succeeds when the configuration knows its file path and
\* the file can be written (writeOk, decided by the environment).
SaveConfigOk(writeOk) == cfgPathSet /\ writeOk

\* SaveConfig(cfg) for the configuration the handler leaves behind
SaveConfig(writeOk) ==
    /\ savedFolders' = IF SaveConfigOk(writeOk) THEN cfgFolders' ELSE savedFolders
    /\ opRet' = IF SaveConfigOk(writeOk) THEN "nil" ELSE "error"

(***************************************************************************)
(* sync.SyncManager: the folder registry.                                  *)
(***************************************************************************)
id_f1 == << "f", "1" >>
id_f2 == << "f", "2" >>
FolderIds == {id_f1, id_f2}

\* the empty string given as a path
NoPath == << << >> >>

FolderSync(id, path, patterns, twoWay, enabled) ==
    [ID |-> id, Path |-> path, ExcludePatterns |-> patterns,
     TwoWaySync |-> twoWay, Enabled |-> enabled]

\* what a folder operation leaves alone
RegFrame ==
    UNCHANGED << upVars, fsVars, scanVars, state, lastCtl, remote, extVars, watcher, watching,
                 events, folderStates, cfgPathSet >>

Fail ==
    /\ opRet' = "error"
    /\ UNCHANGED << folders, cfgFolders, savedFolders, watchedPaths, excludes >>

SetWatcher(w) == watchedPaths' = w.paths /\ excludes' = w.excl

\* SyncManager.AddFolder(folder); a folder without an id is given a new one,
\* so that id is an id no folder has.
AddFolder(id, path, patterns, twoWay, enabled, writeOk) ==
    /\ id \notin DOMAIN folders
    /\ RegFrame
    /\ IF path = NoPath \/ ~Exists(fsDirs, fsFiles, path) \/ path \notin fsDirs
       THEN Fail
       ELSE IF \E f \in DOMAIN folders : folders[f].Path = path
       THEN Fail
       ELSE /\ folders' = Put(folders, id, FolderSync(id, path, patterns, twoWay, enabled))
            /\ IF enabled /\ watcher # "nil"
               THEN SetWatcher(AddFolderW(W, fsDirs, fsFiles, path, patterns))
               ELSE UNCHANGED << watchedPaths, excludes >>
            /\ cfgFolders' = Put(cfgFolders, id, SyncFolder(path, id, patterns, enabled))
            /\ SaveConfig(writeOk)

\* SyncManager.RemoveFolder(folderID)
RemoveFolder(id, writeOk) ==
    /\ RegFrame
    /\ IF id \notin DOMAIN folders
       THEN Fail
       ELSE /\ IF watcher # "nil" /\ folders[id].Enabled
               THEN SetWatcher(RemoveFolderW(W, folders[id].Path))
               ELSE UNCHANGED << watchedPaths, excludes >>
            /\ folders' = Del(folders, id)
            /\ cfgFolders' = IF id \in DOMAIN cfgFolders THEN Del(cfgFolders, id) ELSE cfgFolders
            /\ SaveConfig(writeOk)

\* SyncManager.EnableFolder(folderID)
EnableFolder(id, writeOk) ==
    /\ RegFrame
    /\ IF id \notin DOMAIN folders
       THEN Fail
       ELSE IF folders[id].Enabled
       THEN opRet' = "nil" /\ UNCHANGED << folders, cfgFolders, savedFolders, watchedPaths, excludes >>
       ELSE /\ folders' = [folders EXCEPT ![id].Enabled = TRUE]
            /\ IF watcher # "nil" /\ ~WatchPathOk(fsDirs, fsFiles, folders[id].Path)
               THEN /\ opRet' = "error"
                    /\ UNCHANGED << cfgFolders, savedFolders, watchedPaths, excludes >>
               ELSE /\ IF watcher # "nil"
                       THEN SetWatcher(AddFolderW(W, fsDirs, fsFiles, folders[id].Path,
                                                  folders[id].ExcludePatterns))
                       ELSE UNCHANGED << watchedPaths, excludes >>
                    /\ cfgFolders' = IF id \in DOMAIN cfgFolders
                                     THEN [cfgFolders EXCEPT ![id].Enabled = TRUE]
                                     ELSE cfgFolders
                    /\ SaveConfig(writeOk)

\* SyncManager.DisableFolder(folderID)
DisableFolder(id, writeOk) ==
    /\ RegFrame
    /\ IF id \notin DOMAIN folders
       THEN Fail
       ELSE IF ~folders[id].Enabled
       THEN opRet' = "nil" /\ UNCHANGED << folders, cfgFolders, savedFolders, watchedPaths, excludes >>
       ELSE /\ folders' = [folders EXCEPT ![id].Enabled = FALSE]
            /\ IF watcher # "nil"
               THEN SetWatcher(RemoveFolderW(W, folders[id].Path))
               ELSE UNCHANGED << watchedPaths, excludes >>
            /\ cfgFolders' = IF id \in DOMAIN cfgFolders
                             THEN [cfgFolders EXCEPT ![id].Enabled = FALSE]
                             ELSE cfgFolders
            /\ SaveConfig(writeOk)

\* SyncManager.UpdateFolder(folderID, update)
UpdateFolder(id, update, writeOk) ==
    /\ RegFrame
    /\ IF id \notin DOMAIN folders
       THEN Fail
       ELSE LET old == folders[id]
                w1 == IF watcher # "nil" /\ old.Enabled THEN RemoveFolderW(W, old.Path) ELSE W
                f1 == [old EXCEPT !.ExcludePatterns = update.ExcludePatterns,
                                  !.TwoWaySync = update.TwoWaySync]
                newPath == update.Path # NoPath /\ update.Path # old.Path
                f2 == IF newPath THEN [f1 EXCEPT !.Path = update.Path] ELSE f1
                f3 == [f2 EXCEPT !.Enabled = update.Enabled]
            IN  IF newPath /\ update.Path \notin fsDirs
                THEN \* the new path is refused: the watch is gone, the patterns changed
                     /\ folders' = [folders EXCEPT ![id] = f1]
                     /\ SetWatcher(w1)
                     /\ opRet' = "error"
                     /\ UNCHANGED << cfgFolders, savedFolders >>
                ELSE IF update.Enabled /\ watcher # "nil" /\ ~WatchPathOk(fsDirs, fsFiles, f2.Path)
                THEN /\ folders' = [folders EXCEPT ![id] = f2]
                     /\ SetWatcher(w1)
                     /\ opRet' = "error"
                     /\ UNCHANGED << cfgFolders, savedFolders >>
                ELSE /\ folders' = [folders EXCEPT ![id] = f3]
                     /\ SetWatcher(IF update.Enabled /\ watcher # "nil"
                                   THEN AddFolderW(w1, fsDirs, fsFiles, f2.Path, f2.ExcludePatterns)
                                   ELSE w1)
                     /\ cfgFolders' = IF id \in DOMAIN cfgFolders
                                      THEN [cfgFolders EXCEPT ![id].LocalPath = f3.Path,
                                                              ![id].ExcludePatterns = f3.ExcludePatterns,
                                                              ![id].Enabled = f3.Enabled]
                                      ELSE cfgFolders
                     /\ SaveConfig(writeOk)

\* RemoveFolder for every path of a set, one after the other
RECURSIVE RemoveAll(_, _)
RemoveAll(w, paths) ==
    IF paths = {} THEN w
    ELSE LET p == CHOOSE x \in paths : TRUE
         IN  RemoveAll(RemoveFolderW(w, p), paths \ {p})

\* SyncManager.ReloadConfiguration(ctx).  The configuration is loaded with
\* LoadConfig(""): no file exists at the empty path, so what is loaded is the
\* default configuration, which has no folder and no file path.  The loop
\* over the loaded folders has nothing to go through, and every folder of
\* the registry is removed.
ReloadConfiguration ==
    LET newFolders == LoadConfig(FALSE, savedFolders)
        gone == {id \in DOMAIN folders : id \notin DOMAIN newFolders}
    IN  /\ DOMAIN newFolders = {}
        /\ cfgFolders' = newFolders
        /\ cfgPathSet' = FALSE
        /\ SetWatcher(IF watcher # "nil"
                      THEN RemoveAll(W, {folders[id].Path : id \in {g \in gone : folders[g].Enabled}})
                      ELSE W)
        /\ folders' = [id \in (DOMAIN folders) \ gone |-> folders[id]]
        /\ opRet' = "nil"
        /\ UNCHANGED << upVars, fsVars, scanVars, state, lastCtl, remote, extVars, watcher, watching,
                        events, folderStates, savedFolders >>

(***************************************************************************)
(* sync.SyncManager: start, change events, pause and resume.               *)
(***************************************************************************)
\* the goroutines that run FullSync: the initial scan and the periodic timer
SyncProcs == {"initial", "periodic", "now"}

\* cfg.Sync.AutoSync, true in the default configuration
AutoSync == TRUE

\* Uploader.QueueFile(filePath, folderPath): refused when the uploader is not
\* running; the storage key is the path relative to the folder, written with
\* forward slashes.
QueueFile(filePath, folderPath) ==
    IF ~running
    THEN UNCHANGED << taskQueue, nextId, attempts, lastRet, calls, panicked >>
    ELSE QueueUpload(filePath, JoinSlash(Rel(folderPath, filePath)))

\* what QueueFile leaves alone in the uploader
QueueFrame ==
    UNCHANGED << queueClosed, resultChan, resultClosed, ctxDone, running, wpc,
                 wtask, wres, stopPc, stopsDone, acceptedAtStop >>

\* WatchPath for every folder of a set, one after the other
RECURSIVE WatchAll(_, _, _, _)
WatchAll(w, dirs, files, fs) ==
    IF fs = {} THEN w
    ELSE LET f == CHOOSE x \in fs : TRUE
         IN  WatchAll(WatchPath(w, dirs, files, f.Path, f.ExcludePatterns), dirs, files, fs \ {f})

\* SyncManager.Start(): a new watcher, a watch on every enabled folder, the
\* watch loop, the handler, the periodic timer and the initial full sync.
Start ==
    /\ watcher = "nil"
    /\ watcher' = "new"
    /\ SetWatcher(WatchAll(WatcherRec({}, EmptyMap), fsDirs, fsFiles,
                           {folders[id] : id \in {f \in DOMAIN folders : folders[f].Enabled}}))
    /\ watching' = TRUE
    /\ syncPc' = IF AutoSync THEN [syncPc EXCEPT !["initial"] = "begin"] ELSE syncPc
    /\ UNCHANGED << upVars, fsVars, regVars, state, lastCtl, remote, extVars, events,
                    syncTodo, syncCur, walkTodo, dlTodo, dlLocal, dlErr, ticks >>

\* FileWatcher.watch(), the part before the handlers: a created directory is
\* registered when some root that has exclude patterns accepts it, a removed
\* or renamed path is forgotten.
WatchedAfter(ev) ==
    IF ev.Op = "Create"
    THEN IF /\ ev.Name \in fsDirs
            /\ \E root \in DOMAIN excludes :
                   isSubdirectory(ev.Name, root) /\ ~shouldExclude(excludes, root, ev.Name)
         THEN watchedPaths \cup {ev.Name}
         ELSE watchedPaths
    ELSE IF ev.Op \in {"Remove", "Rename"} THEN watchedPaths \ {ev.Name}
    ELSE watchedPaths

\* one access to shared state: who makes it, to what, and how sm.mu is held
\* ("none", "R" for RLock, "W" for Lock)
Access(by, what, lock) == [by |-> by, what |-> what, lock |-> lock]

\* SyncManager.handleFileEvent(ctx, event): the first folder of the map that
\* is enabled and for which isSubPath holds gets the event.
handleFileEvent(ev) ==
    LET owners == {id \in DOMAIN folders :
                       isSubPath(folders[id].Path, ev.Name) /\ folders[id].Enabled}
    IN  IF owners = {} \/ ev.Op \notin {"Create", "Write"}
        THEN UNCHANGED << taskQueue, nextId, attempts, lastRet, calls, panicked >>
        ELSE \E id \in owners : QueueFile(ev.Name, folders[id].Path)

\* one turn of the watch loop, with the sync package's handler registered
WatchLoop ==
    /\ watching
    /\ events # << >>
    /\ events' = Tail(events)
    /\ watchedPaths' = WatchedAfter(Head(events))
    /\ handleFileEvent(Head(events))
    /\ accesses' = accesses \cup {Access("handler", "folders", "none")}
    /\ QueueFrame
    /\ UNCHANGED << fsVars, regVars, scanVars, state, lastCtl, remote, readerVars, dispatchVars,
                    stopVars, syncAllVars, errors, watcher, watching, excludes >>

\* what the dispatch steps leave alone
DispatchFrame ==
    UNCHANGED << upVars, fsVars, regVars, scanVars, state, lastCtl, remote, readerVars, stopVars, syncAllVars,
                 statVars, watcher, watching, excludes >>

\* the handlers that can be registered
HandlerNames == {"h1", "h2"}

\* FileWatcher.AddHandler(handler)
AddHandler(h) ==
    /\ watcher # "nil"
    /\ Len(handlers) < MaxHandlers
    /\ handlers' = Append(handlers, h)
    /\ UNCHANGED << events, watchedPaths, hTodo, taken, regAtTake, hLog >>
    /\ DispatchFrame

\* FileWatcher.watch(), step by step: the loop takes an event once the
\* handlers of the event before have returned, updates the registered set and
\* copies the handler list.
WatchTake ==
    /\ watching
    /\ events # << >>
    /\ hTodo = << >>
    /\ events' = Tail(events)
    /\ watchedPaths' = WatchedAfter(Head(events))
    /\ taken' = taken + 1
    /\ regAtTake' = Append(regAtTake, handlers)
    /\ hTodo' = handlers
    /\ UNCHANGED << handlers, hLog >>
    /\ DispatchFrame

\* a loop that calls the handlers of its copy from the last to the first
HandlerCallLast ==
    /\ hTodo # << >>
    /\ hLog' = Append(hLog, [ev |-> taken, h |-> hTodo[Len(hTodo)]])
    /\ hTodo' = SubSeq(hTodo, 1, Len(hTodo) - 1)
    /\ UNCHANGED << events, watchedPaths, handlers, taken, regAtTake >>
    /\ DispatchFrame

\* FileWatcher.watch(): the next handler of the copy is called and returns
HandlerCall ==
    /\ hTodo # << >>
    /\ hLog' = Append(hLog, [ev |-> taken, h |-> Head(hTodo)])
    /\ hTodo' = Tail(hTodo)
    /\ UNCHANGED << events, watchedPaths, handlers, taken, regAtTake >>
    /\ DispatchFrame

\* SyncManager.Stop(): the context of Start is cancelled when there is one,
\* stopChan is closed and the watcher is stopped.  The uploader is left
\* alone and no goroutine is waited for.
Stop ==
    /\ stopRet = "none"
    /\ smCancelled' = (watcher # "nil")
    /\ stopChan' = "closed"
    /\ watching' = FALSE
    /\ stopRet' = "nil"
    /\ UNCHANGED << upVars, fsVars, regVars, scanVars, state, lastCtl, remote, readerVars,
                    dispatchVars, statVars, syncAllVars, watcher, watchedPaths, excludes, events >>

\* main(): Stop is called on the orchestrator it has started
MainStop == watcher # "nil" /\ Stop

\* SyncManager.PauseSync()
PauseSync ==
    /\ state' = IF state \in {"idle", "syncing", "scanning"} THEN "paused" ELSE state
    /\ lastCtl' = "pause"
    /\ UNCHANGED << upVars, fsVars, watchVars, regVars, scanVars, remote, extVars >>

\* SyncManager.ResumeSync()
ResumeSync ==
    /\ state' = IF state = "paused" THEN "idle" ELSE state
    /\ lastCtl' = "resume"
    /\ UNCHANGED << upVars, fsVars, watchVars, regVars, scanVars, remote, extVars >>

(***************************************************************************)
(* sync.SyncManager: the full sync and the two-way reconciliation.         *)
(***************************************************************************)
\* strings.TrimPrefix(s, prefix)
HasPrefix(str, prefix) == Len(str) >= Len(prefix) /\ SubSeq(str, 1, Len(prefix)) = prefix
TrimPrefix(str, prefix) ==
    IF HasPrefix(str, prefix) THEN SubSeq(str, Len(prefix) + 1, Len(str)) ELSE str

\* the names of a slash-separated path
RECURSIVE SplitSlash(_)
SplitSlash(str) ==
    IF \A i \in 1 .. Len(str) : str[i] # Slash THEN << str >>
    ELSE LET k == CHOOSE i \in 1 .. Len(str) :
                      str[i] = Slash /\ \A j \in 1 .. (i - 1) : str[j] # Slash
         IN  << SubSeq(str, 1, k - 1) >> \o SplitSlash(SubSeq(str, k + 1, Len(str)))

\* the present, later than every modification time on record
Now == MaxTime
Empty == "empty"

\* the remote objects the model knows, in listing order
AllKeys == << id_f1 \o << Slash >> \o n_a_txt,
              id_f1 \o << Slash >> \o n_s \o << Slash >> \o n_c_txt,
              id_f2 \o << Slash >> \o n_d_txt >>

\* Storage.ListFiles(ctx, prefix): the objects below the directory prefix
ListFiles(prefix) ==
    LET listed == SelectSeq(AllKeys, LAMBDA k : k \in DOMAIN remote /\ HasPrefix(k, prefix \o << Slash >>))
    IN  [i \in 1 .. Len(listed) |-> [Key |-> listed[i], LastModified |-> remote[listed[i]].LastModified]]

\* a walk that does not go down into the directories of root
WalkTopLevel(root) == SelectSeq(AllFiles, LAMBDA f : f \in DOMAIN fsFiles /\ Parent(f) = root)

\* filepath.Walk(root): the regular files at or below root, in walk order
Walk(root) == SelectSeq(AllFiles, LAMBDA f : f \in DOMAIN fsFiles /\ Under(f, root))

\* every order in which a map of at most two folders can be ranged over
Orders(ids) ==
    {sq \in UNION {[1 .. n -> ids] : n \in {Cardinality(ids)}} :
         \A i, j \in DOMAIN sq : i # j => sq[i] # sq[j]}

\* the folder a full sync holds a pointer to
Cur(p) == IF syncCur[p].ID \in DOMAIN folders THEN folders[syncCur[p].ID] ELSE syncCur[p]

ScanFrame == UNCHANGED << watchVars, regVars, remote, readerVars, dispatchVars, stopVars, syncAllVars, fsVars >>

\* FullSync counts a folder whose syncFolder returned an error; SyncFolderByID
\* only returns the error.
FolderFailed(p) ==
    IF p = "now" THEN UNCHANGED statVars
    ELSE /\ errors' = errors + 1
         /\ accesses' = accesses \cup {Access("fullsync", "stats", "none")}

\* the periodic timer fires and periodicSync calls FullSync; the loop has
\* returned once stopChan is closed or the context is cancelled
PeriodicTick ==
    /\ watcher # "nil"
    /\ stopChan = "open" /\ ~smCancelled
    /\ syncPc["periodic"] = "idle"
    /\ ticks < MaxTicks
    /\ ticks' = ticks + 1
    /\ syncPc' = [syncPc EXCEPT !["periodic"] = "begin"]
    /\ UNCHANGED << upVars, watchVars, regVars, remote, extVars, fsVars, state, lastCtl,
                    syncTodo, syncCur, walkTodo, dlTodo, dlLocal, dlErr >>

\* FullSync: the state becomes Scanning
FullSyncBegin(p) ==
    /\ syncPc[p] = "begin"
    /\ state' = "scanning"
    /\ syncPc' = [syncPc EXCEPT ![p] = "snapshot"]
    /\ UNCHANGED lastCtl
    /\ ScanFrame
    /\ UNCHANGED statVars
    /\ UNCHANGED << upVars, syncTodo, syncCur, walkTodo, dlTodo, dlLocal, dlErr, ticks >>

\* FullSync: the enabled folders are collected
FullSyncSnapshot(p) ==
    /\ syncPc[p] = "snapshot"
    /\ \E order \in Orders({id \in DOMAIN folders : folders[id].Enabled}) :
           syncTodo' = [syncTodo EXCEPT ![p] = [i \in DOMAIN order |-> folders[order[i]]]]
    /\ syncPc' = [syncPc EXCEPT ![p] = "next"]
    /\ accesses' = accesses \cup {Access("fullsync", "folders", "R")}
    /\ UNCHANGED errors
    /\ ScanFrame
    /\ UNCHANGED << upVars, state, lastCtl, syncCur, walkTodo, dlTodo, dlLocal, dlErr, ticks >>

\* FullSync: the next folder of the list, or the end of the list
FullSyncNext(p) ==
    /\ syncPc[p] = "next"
    /\ IF syncTodo[p] = << >>
       THEN /\ syncPc' = [syncPc EXCEPT ![p] = "finish"]
            /\ UNCHANGED << syncTodo, syncCur >>
       ELSE /\ syncCur' = [syncCur EXCEPT ![p] = Head(syncTodo[p])]
            /\ syncTodo' = [syncTodo EXCEPT ![p] = Tail(syncTodo[p])]
            /\ syncPc' = [syncPc EXCEPT ![p] = "folder"]
    /\ ScanFrame
    /\ UNCHANGED statVars
    /\ UNCHANGED << upVars, state, lastCtl, walkTodo, dlTodo, dlLocal, dlErr, ticks >>

\* syncFolder: the state becomes Syncing and the walk starts; a folder whose
\* path cannot be walked is given up.
SyncFolderBegin(p) ==
    /\ syncPc[p] = "folder"
    /\ state' = "syncing"
    /\ IF Exists(fsDirs, fsFiles, Cur(p).Path)
       THEN /\ walkTodo' = [walkTodo EXCEPT ![p] = Walk(Cur(p).Path)]
            /\ syncPc' = [syncPc EXCEPT ![p] = "walk"]
            /\ UNCHANGED statVars
       ELSE /\ syncPc' = [syncPc EXCEPT ![p] = "next"]
            /\ FolderFailed(p)
            /\ UNCHANGED walkTodo
    /\ UNCHANGED lastCtl
    /\ ScanFrame
    /\ UNCHANGED << upVars, syncTodo, syncCur, dlTodo, dlLocal, dlErr, ticks >>

\* syncFolder: the walk visits one file, and queues it unless it is excluded
SyncFolderWalk(p) ==
    /\ syncPc[p] = "walk"
    /\ IF walkTodo[p] = << >>
       THEN /\ syncPc' = [syncPc EXCEPT ![p] = IF Cur(p).TwoWaySync THEN "list" ELSE "next"]
            /\ UNCHANGED << walkTodo, taskQueue, nextId, attempts, lastRet, calls, panicked >>
       ELSE /\ walkTodo' = [walkTodo EXCEPT ![p] = Tail(walkTodo[p])]
            /\ UNCHANGED syncPc
            /\ IF ShouldExclude(Rel(Cur(p).Path, Head(walkTodo[p])), Cur(p).ExcludePatterns)
               THEN UNCHANGED << taskQueue, nextId, attempts, lastRet, calls, panicked >>
               ELSE QueueFile(Head(walkTodo[p]), Cur(p).Path)
    /\ QueueFrame
    /\ ScanFrame
    /\ UNCHANGED statVars
    /\ UNCHANGED << state, lastCtl, syncTodo, syncCur, dlTodo, dlLocal, dlErr, ticks >>

\* downloadFromRemote builds its map of local files: relative path -> mtime
LocalFiles(folder) ==
    LET kept == {f \in DOMAIN fsFiles :
                     /\ Under(f, folder.Path)
                     /\ ~ShouldExclude(Rel(folder.Path, f), folder.ExcludePatterns)}
    IN  [rel \in {JoinSlash(Rel(folder.Path, f)) : f \in kept} |->
            fsFiles[CHOOSE f \in kept : JoinSlash(Rel(folder.Path, f)) = rel].mtime]

\* downloadFromRemote: the remote objects are listed and the local files
\* recorded; when the listing fails the folder is given up.
DownloadList(p, listOk) ==
    /\ syncPc[p] = "list"
    /\ IF listOk
       THEN /\ dlTodo' = [dlTodo EXCEPT ![p] = ListFiles(Cur(p).ID)]
            /\ dlLocal' = [dlLocal EXCEPT ![p] = LocalFiles(Cur(p))]
            /\ syncPc' = [syncPc EXCEPT ![p] = "download"]
            /\ UNCHANGED statVars
       ELSE /\ syncPc' = [syncPc EXCEPT ![p] = "next"]
            /\ FolderFailed(p)
            /\ UNCHANGED << dlTodo, dlLocal >>
    /\ UNCHANGED dlErr
    /\ ScanFrame
    /\ UNCHANGED << upVars, state, lastCtl, syncTodo, syncCur, walkTodo, ticks >>

\* the relative path, the local path and the decision for a remote object
RemotePath(folder, r) == TrimPrefix(r.Key, folder.ID \o << Slash >>)
LocalPath(folder, r) == JoinClean(folder.Path, SplitSlash(RemotePath(folder, r)))
NeedsDownload(p, folder, r) ==
    \/ RemotePath(folder, r) \notin DOMAIN dlLocal[p]
    \/ r.LastModified > dlLocal[p][RemotePath(folder, r)]

\* the events of the directories MkdirAll creates, parents first
RECURSIVE NotifyDirs(_, _, _)
NotifyDirs(paths, evs, newDirs) ==
    IF newDirs = {} THEN evs
    ELSE LET d == CHOOSE x \in newDirs : \A y \in newDirs : Len(x) <= Len(y)
         IN  NotifyDirs(paths, Notify(paths, evs, "Create", d), newDirs \ {d})

\* a download that leaves the file with the time of its writing
DownloadedNoChtimes(r) == [mtime |-> Now, content |-> remote[r.Key].content]

\* what the download of r writes when the backend succeeds
Downloaded(r) == [mtime |-> r.LastModified, content |-> remote[r.Key].content]
\* the file os.Create leaves when the backend fails
Truncated == [mtime |-> Now, content |-> Empty]

\* the download loop counts a file it could not create or download, without
\* the lock
DownloadFailed ==
    /\ errors' = errors + 1
    /\ accesses' = accesses \cup {Access("download", "stats", "none")}

\* the download loop counts a downloaded file under the lock
DownloadCounted ==
    /\ accesses' = accesses \cup {Access("download", "stats", "W")}
    /\ UNCHANGED errors

\* downloadFromRemote: one remote object is reconciled, unless the context has
\* been cancelled; the loop then returns the context's error
DownloadStep(p, dlOk) ==
    /\ syncPc[p] = "download"
    /\ IF dlTodo[p] = << >> \/ smCancelled
       THEN /\ syncPc' = [syncPc EXCEPT ![p] = "next"]
            /\ IF dlTodo[p] = << >> THEN UNCHANGED statVars ELSE FolderFailed(p)
            /\ UNCHANGED << dlTodo, fsDirs, fsFiles, events, dlErr >>
       ELSE LET r == Head(dlTodo[p])
                local == LocalPath(Cur(p), r)
                dirs1 == MkdirAll(fsDirs, Parent(local))
                evs1 == NotifyDirs(watchedPaths, events, dirs1 \ fsDirs)
            IN  /\ dlTodo' = [dlTodo EXCEPT ![p] = Tail(dlTodo[p])]
                /\ UNCHANGED syncPc
                /\ IF ~NeedsDownload(p, Cur(p), r) \/ ~MkdirAllOk(fsFiles, Parent(local))
                   THEN dlErr' = "none" /\ UNCHANGED << fsDirs, fsFiles, events, statVars >>
                   ELSE IF local \in dirs1
                   THEN /\ fsDirs' = dirs1
                        /\ events' = evs1
                        /\ dlErr' = "none"
                        /\ DownloadFailed
                        /\ UNCHANGED fsFiles
                   ELSE /\ fsDirs' = dirs1
                        /\ fsFiles' = Put(fsFiles, local, IF dlOk THEN Downloaded(r) ELSE Truncated)
                        /\ events' = Notify(watchedPaths, evs1,
                                            IF local \in DOMAIN fsFiles THEN "Write" ELSE "Create", local)
                        /\ dlErr' = IF dlOk THEN "nil" ELSE "error"
                        /\ IF dlOk THEN DownloadCounted ELSE DownloadFailed
    /\ UNCHANGED << upVars, regVars, remote, readerVars, dispatchVars, stopVars, syncAllVars, envOps, watcher,
                    watching, watchedPaths,
                    excludes, state, lastCtl, syncTodo, syncCur, walkTodo, dlLocal, ticks >>

\* SyncNow(ctx, folderID) with a folder id: SyncFolderByID looks the folder up
\* and calls syncFolder on it; an unknown id is an error and nothing happens.
SyncNowFolder(id) ==
    /\ syncPc["now"] = "idle"
    /\ IF id \in DOMAIN folders
       THEN /\ syncCur' = [syncCur EXCEPT !["now"] = folders[id]]
            /\ syncPc' = [syncPc EXCEPT !["now"] = "folder"]
       ELSE UNCHANGED << syncCur, syncPc >>
    /\ ScanFrame
    /\ UNCHANGED statVars
    /\ UNCHANGED << upVars, state, lastCtl, syncTodo, walkTodo, dlTodo, dlLocal, dlErr, ticks >>

\* syncFolder has returned: SyncFolderByID and SyncNow return what it returned
SyncNowReturn ==
    /\ syncPc["now"] = "next"
    /\ syncPc' = [syncPc EXCEPT !["now"] = "idle"]
    /\ ScanFrame
    /\ UNCHANGED statVars
    /\ UNCHANGED << upVars, state, lastCtl, syncTodo, syncCur, walkTodo, dlTodo, dlLocal, dlErr, ticks >>

\* FullSync: the deferred function sets the state to Idle
FullSyncFinish(p) ==
    /\ syncPc[p] = "finish"
    /\ state' = "idle"
    /\ syncPc' = [syncPc EXCEPT ![p] = "idle"]
    /\ UNCHANGED lastCtl
    /\ accesses' = accesses \cup {Access("fullsync", "stats", "W"),
                                    Access("fullsync", "stats", "none")}
    /\ UNCHANGED errors
    /\ ScanFrame
    /\ UNCHANGED << upVars, syncTodo, syncCur, walkTodo, dlTodo, dlLocal, dlErr, ticks >>

\* The user writes a file: a new file, or new content for an old one.
UserContent == "user"
UserWrite(f) ==
    /\ envOps < MaxEnvOps
    /\ Parent(f) \in fsDirs
    /\ f \notin fsDirs
    /\ envOps' = envOps + 1
    /\ fsFiles' = Put(fsFiles, f, [mtime |-> Now, content |-> UserContent])
    /\ events' = Notify(watchedPaths, events,
                        IF f \in DOMAIN fsFiles THEN "Write" ELSE "Create", f)
    /\ UNCHANGED << upVars, regVars, scanVars, state, lastCtl, remote, extVars, fsDirs, watcher,
                    watching, watchedPaths, excludes >>

\* The user creates a directory.
UserMkdir(d) ==
    /\ d \notin fsDirs
    /\ d \notin DOMAIN fsFiles
    /\ Parent(d) \in fsDirs
    /\ fsDirs' = fsDirs \cup {d}
    /\ events' = Notify(watchedPaths, events, "Create", d)
    /\ UNCHANGED << upVars, regVars, scanVars, state, lastCtl, remote, extVars, fsFiles, envOps,
                    watcher, watching, watchedPaths, excludes >>

(***************************************************************************)
(* syncmanager.SyncManager: the orchestrator the agent's main program      *)
(* runs.  Its folder registry is folderStates; it shares the FileWatcher   *)
(* and the configuration with the model above.  Its sync goroutines write  *)
(* only the Status and Stats fields, which FolderState leaves out here.    *)
(***************************************************************************)
FolderState(id, localPath, remotePath, patterns, enabled) ==
    [ID |-> id, LocalPath |-> localPath, RemotePath |-> remotePath,
     ExcludePatterns |-> patterns, Enabled |-> enabled]

\* what an operation of this registry leaves alone
syncmanager_Frame ==
    UNCHANGED << upVars, scanVars, state, lastCtl, remote, extVars, watcher, watching, folders,
                 cfgPathSet, fsFiles, envOps >>

syncmanager_Fail ==
    /\ opRet' = "error"
    /\ UNCHANGED << folderStates, cfgFolders, savedFolders, watchedPaths, excludes,
                    fsDirs, events >>

\* syncmanager.NewSyncManager(cfg): the watcher is created here
syncmanager_NewSyncManager(cfg) ==
    /\ folderStates = [id \in DOMAIN cfg |->
                          FolderState(id, cfg[id].LocalPath, cfg[id].RemotePath,
                                      cfg[id].ExcludePatterns, cfg[id].Enabled)]
    /\ folders = EmptyMap
    /\ cfgFolders = cfg
    /\ cfgPathSet = TRUE
    /\ savedFolders = cfg
    /\ opRet = "none"
    /\ watcher = "new"
    /\ watching = FALSE
    /\ watchedPaths = {}
    /\ excludes = EmptyMap
    /\ events = << >>
    /\ state = "idle"
    /\ syncPc = [p \in SyncProcs |-> "idle"]
    /\ syncTodo = [p \in SyncProcs |-> << >>]
    /\ syncCur = [p \in SyncProcs |-> FolderSync(<< >>, NoPath, << >>, FALSE, FALSE)]
    /\ walkTodo = [p \in SyncProcs |-> << >>]
    /\ dlTodo = [p \in SyncProcs |-> << >>]
    /\ dlLocal = [p \in SyncProcs |-> EmptyMap]
    /\ dlErr = "none"
    /\ lastCtl = "none"
    /\ ticks = 0

\* MkdirAll then WatchDirectory for every folder of a set
RECURSIVE syncmanager_WatchAll(_, _, _, _)
syncmanager_WatchAll(w, dirs, files, paths) ==
    IF paths = {} THEN [w |-> w, dirs |-> dirs]
    ELSE LET p == CHOOSE x \in paths : TRUE
         IN  IF p = NoPath \/ ~MkdirAllOk(files, p)
             THEN syncmanager_WatchAll(w, dirs, files, paths \ {p})
             ELSE syncmanager_WatchAll(WatchDirectory(w, MkdirAll(dirs, p), files, p),
                                       MkdirAll(dirs, p), files, paths \ {p})

\* syncmanager.SyncManager.Start(): the watch loop, then every enabled
\* folder's directory is created when missing and watched.
syncmanager_Start ==
    /\ ~watching
    /\ watching' = TRUE
    /\ LET res == syncmanager_WatchAll(W, fsDirs, fsFiles,
                      {folderStates[id].LocalPath :
                           id \in {f \in DOMAIN folderStates : folderStates[f].Enabled}})
       IN  /\ SetWatcher(res.w)
           /\ fsDirs' = res.dirs
           /\ events' = NotifyDirs(watchedPaths, events, res.dirs \ fsDirs)
    /\ UNCHANGED << upVars, scanVars, state, lastCtl, remote, extVars, watcher, regVars, fsFiles, envOps >>

\* syncmanager.SyncManager.AddFolder(id, localPath, remotePath, patterns)
syncmanager_AddFolder(id, localPath, patterns, writeOk) ==
    /\ syncmanager_Frame
    /\ IF id \in DOMAIN folderStates
       THEN syncmanager_Fail
       ELSE IF localPath = NoPath \/ ~MkdirAllOk(fsFiles, localPath)
       THEN syncmanager_Fail
       ELSE LET dirs1 == MkdirAll(fsDirs, localPath)
            IN  /\ fsDirs' = dirs1
                /\ events' = NotifyDirs(watchedPaths, events, dirs1 \ fsDirs)
                /\ cfgFolders' = Put(cfgFolders, id, SyncFolder(localPath, id, patterns, TRUE))
                /\ folderStates' = Put(folderStates, id,
                                       FolderState(id, localPath, id, patterns, TRUE))
                /\ SetWatcher(WatchDirectory(W, dirs1, fsFiles, localPath))
                /\ SaveConfig(writeOk)

\* syncmanager.SyncManager.RemoveFolder(folderID)
syncmanager_RemoveFolder(id, writeOk) ==
    /\ syncmanager_Frame
    /\ IF id \notin DOMAIN folderStates
       THEN syncmanager_Fail
       ELSE /\ SetWatcher(IF folderStates[id].Enabled
                          THEN UnwatchDirectory(W, folderStates[id].LocalPath)
                          ELSE W)
            /\ cfgFolders' = IF id \in DOMAIN cfgFolders THEN Del(cfgFolders, id) ELSE cfgFolders
            /\ folderStates' = Del(folderStates, id)
            /\ SaveConfig(writeOk)
            /\ UNCHANGED << fsDirs, events >>

\* syncmanager.SyncManager.EnableFolder(folderID)
syncmanager_EnableFolder(id) ==
    /\ syncmanager_Frame
    /\ IF id \notin DOMAIN folderStates
       THEN syncmanager_Fail
       ELSE IF folderStates[id].Enabled
       THEN /\ opRet' = "nil"
            /\ UNCHANGED << folderStates, cfgFolders, savedFolders, watchedPaths,
                            excludes, fsDirs, events >>
       ELSE /\ folderStates' = [folderStates EXCEPT ![id].Enabled = TRUE]
            /\ SetWatcher(WatchDirectory(W, fsDirs, fsFiles, folderStates[id].LocalPath))
            /\ opRet' = IF WatchPathOk(fsDirs, fsFiles, folderStates[id].LocalPath)
                        THEN "nil" ELSE "error"
            /\ UNCHANGED << cfgFolders, savedFolders, fsDirs, events >>

\* syncmanager.SyncManager.DisableFolder(folderID)
syncmanager_DisableFolder(id) ==
    /\ syncmanager_Frame
    /\ IF id \notin DOMAIN folderStates
       THEN syncmanager_Fail
       ELSE IF ~folderStates[id].Enabled
       THEN /\ opRet' = "nil"
            /\ UNCHANGED << folderStates, cfgFolders, savedFolders, watchedPaths,
                            excludes, fsDirs, events >>
       ELSE /\ folderStates' = [folderStates EXCEPT ![id].Enabled = FALSE]
            /\ SetWatcher(UnwatchDirectory(W, folderStates[id].LocalPath))
            /\ opRet' = "nil"
            /\ UNCHANGED << cfgFolders, savedFolders, fsDirs, events >>

\* syncmanager.SyncManager.UpdateFolderConfig(folderID, localPath,
\* remotePath, patterns, enabled).  The test that decides whether the new
\* path is watched reads the folder state after it has been overwritten.
syncmanager_UpdateFolderConfig(id, localPath, patterns, enabled, writeOk) ==
    /\ syncmanager_Frame
    /\ IF id \notin DOMAIN folderStates
       THEN syncmanager_Fail
       ELSE LET old == folderStates[id]
                w1 == IF old.Enabled /\ (old.LocalPath # localPath \/ ~enabled)
                      THEN UnwatchDirectory(W, old.LocalPath) ELSE W
                new == FolderState(id, localPath, id, patterns, enabled)
                rewatch == enabled /\ (new.LocalPath # localPath \/ ~new.Enabled)
                dirs1 == IF rewatch /\ localPath # NoPath /\ MkdirAllOk(fsFiles, localPath)
                         THEN MkdirAll(fsDirs, localPath) ELSE fsDirs
            IN  /\ cfgFolders' = Put(cfgFolders, id, SyncFolder(localPath, id, patterns, enabled))
                /\ folderStates' = [folderStates EXCEPT ![id] = new]
                /\ fsDirs' = dirs1
                /\ events' = NotifyDirs(watchedPaths, events, dirs1 \ fsDirs)
                /\ IF rewatch /\ (localPath = NoPath \/ ~MkdirAllOk(fsFiles, localPath))
                   THEN SetWatcher(w1) /\ opRet' = "error" /\ UNCHANGED savedFolders
                   ELSE /\ SetWatcher(IF rewatch THEN WatchDirectory(w1, dirs1, fsFiles, localPath) ELSE w1)
                        /\ SaveConfig(writeOk)

(***************************************************************************)
(* throttledReader: the rate limiter put around the file of an upload.     *)
(* Time is counted in ticks, Second of them to the second.                 *)
(***************************************************************************)
\* time.Second
Second == TicksPerSecond

\* newThrottledReader(reader, bytesPerSec), for a quota above zero
newThrottledReader(n) ==
    /\ clock = 0
    /\ bytesPerSec = n
    /\ bytesThisSec = 0
    /\ lastTimestamp = 0
    /\ readRet = [n |-> -1, len |-> 0]
    /\ reads = 0

\* a limit that is the whole quota whatever has been delivered
maxBytesWholeQuota(quota, delivered) == quota

\* how many bytes Read may still deliver
maxBytes(quota, delivered) ==
    IF quota - delivered <= 0 THEN quota ELSE quota - delivered

\* throttledReader.Read(p) with len(p) = len; the underlying reader returns
\* n bytes, late is how much longer than asked time.Sleep sleeps.
Read(len, n, late) ==
    LET now == clock
        elapsed == now - lastTimestamp
        reset1 == elapsed >= Second
        bytes1 == IF reset1 THEN 0 ELSE bytesThisSec
        last1 == IF reset1 THEN now ELSE lastTimestamp
        timeToSleep == Second - elapsed
        sleeps == bytes1 >= bytesPerSec /\ timeToSleep > 0
        now2 == IF sleeps THEN now + timeToSleep + late ELSE now
        bytes2 == IF sleeps THEN 0 ELSE bytes1
        last2 == IF sleeps THEN now2 ELSE last1
        limit == maxBytes(bytesPerSec, bytes2)
        toRead == IF len > limit THEN limit ELSE len
    IN  /\ reads < MaxReads
        /\ n <= toRead
        /\ sleeps \/ late = 0
        /\ now2 <= MaxClock
        /\ clock' = now2
        /\ lastTimestamp' = last2
        /\ bytesThisSec' = bytes2 + n
        /\ readRet' = [n |-> n, len |-> len]
        /\ reads' = reads + 1
        /\ UNCHANGED << upVars, syncVars, dispatchVars, stopVars, syncAllVars, statVars, bytesPerSec >>

\* time passes between two calls of Read
Tick ==
    /\ clock < MaxClock
    /\ clock' = clock + 1
    /\ UNCHANGED << upVars, syncVars, dispatchVars, stopVars, syncAllVars, statVars, bytesPerSec, bytesThisSec,
                    lastTimestamp, readRet, reads >>

\* NewFileWatcher(): no handler yet
NewFileWatcher ==
    /\ handlers = << >>
    /\ hTodo = << >>
    /\ taken = 0
    /\ regAtTake = << >>
    /\ hLog = << >>

\* the orchestrator before Start and Stop
NotStopped ==
    /\ smCancelled = FALSE
    /\ stopChan = "open"
    /\ stopRet = "none"

\* the statistics of NewSyncManager: nothing counted, nothing accessed yet
NewStats ==
    /\ errors = 0
    /\ accesses = {}

\* the callers of SyncAll: the goroutine launched by Start, periodicSync,
\* and any other caller of the exported method
AllCallers == {"initial", "periodic", "api"}

\* syncmanager.NewSyncManager: status Idle, no sync in progress
NewSyncAll ==
    /\ status = "idle"
    /\ syncInProgress = FALSE
    /\ allPc = [c \in AllCallers |-> "idle"]
    /\ allTodo = [c \in AllCallers |-> {}]
    /\ allScan = [c \in AllCallers |-> {}]
    /\ allRet = [c \in AllCallers |-> "none"]
    /\ allCalls = 0

\* what the steps of SyncAll leave alone
SyncAllFrame ==
    UNCHANGED << upVars, syncVars, readerVars, dispatchVars, stopVars, statVars >>

\* who may call SyncAll: the goroutine of Start calls it once, periodicSync
\* at each tick, both once Start has run
MayCall(c) ==
    /\ allPc[c] = "idle"
    /\ allCalls < MaxSyncAlls
    /\ c = "initial" => (watching /\ allRet[c] = "none")
    /\ c = "periodic" => watching

\* a SyncAll that does not look at syncInProgress
SyncAllEnterNoCheck(c) ==
    /\ MayCall(c)
    /\ allCalls' = allCalls + 1
    /\ syncInProgress' = TRUE
    /\ status' = "syncing"
    /\ allPc' = [allPc EXCEPT ![c] = "spawn"]
    /\ UNCHANGED << allRet, allTodo, allScan >>
    /\ SyncAllFrame

\* SyncAll, under the lock: refused when a sync is in progress, else the flag
\* is set and the status becomes Syncing
SyncAllEnter(c) ==
    /\ MayCall(c)
    /\ allCalls' = allCalls + 1
    /\ IF syncInProgress
       THEN /\ allRet' = [allRet EXCEPT ![c] = "sync already in progress"]
            /\ UNCHANGED << syncInProgress, status, allPc >>
       ELSE /\ syncInProgress' = TRUE
            /\ status' = "syncing"
            /\ allPc' = [allPc EXCEPT ![c] = "spawn"]
            /\ UNCHANGED allRet
    /\ UNCHANGED << allTodo, allScan >>
    /\ SyncAllFrame

\* SyncAll: one goroutine is launched for each enabled folder of the table
SyncAllSpawn(c) ==
    /\ allPc[c] = "spawn"
    /\ allTodo' = [allTodo EXCEPT ![c] = {id \in DOMAIN folderStates : folderStates[id].Enabled}]
    /\ allPc' = [allPc EXCEPT ![c] = "wait"]
    /\ UNCHANGED << status, syncInProgress, allScan, allRet, allCalls >>
    /\ SyncAllFrame

\* a goroutine of SyncAll enters syncFolder(id)
SyncAllFolderBegin(c, id) ==
    /\ id \in allTodo[c]
    /\ allTodo' = [allTodo EXCEPT ![c] = @ \ {id}]
    /\ allScan' = [allScan EXCEPT ![c] = @ \cup {id}]
    /\ UNCHANGED << status, syncInProgress, allPc, allRet, allCalls >>
    /\ SyncAllFrame

\* syncFolder(id) returns and the goroutine is done
SyncAllFolderEnd(c, id) ==
    /\ id \in allScan[c]
    /\ allScan' = [allScan EXCEPT ![c] = @ \ {id}]
    /\ UNCHANGED << status, syncInProgress, allPc, allTodo, allRet, allCalls >>
    /\ SyncAllFrame

\* SyncAll: every goroutine is done; the deferred function clears the flag
\* and sets the status to Idle
SyncAllReturn(c) ==
    /\ allPc[c] = "wait"
    /\ allTodo[c] = {} /\ allScan[c] = {}
    /\ syncInProgress' = FALSE
    /\ status' = "idle"
    /\ allPc' = [allPc EXCEPT ![c] = "idle"]
    /\ allRet' = [allRet EXCEPT ![c] = "nil"]
    /\ UNCHANGED << allTodo, allScan, allCalls >>
    /\ SyncAllFrame

ExtInit == newThrottledReader(1) /\ NewFileWatcher /\ NotStopped /\ NewStats /\ NewSyncAll

vars == << upVars, syncVars, extVars >>

(***************************************************************************)
(* Construction.                                                           *)
(***************************************************************************)
\* the file tree the program is started on
TreeInit(dirs, files) ==
    /\ fsDirs = dirs
    /\ fsFiles = files
    /\ envOps = 0

\* sync.NewSyncManager(cfg, storage, uploader), cfg loaded from its file:
\* one folder per folder of the configuration, one-way, no watcher yet.
NewSyncManager(cfg) ==
    /\ folders = [id \in DOMAIN cfg |->
                     FolderSync(id, cfg[id].LocalPath, cfg[id].ExcludePatterns, FALSE, cfg[id].Enabled)]
    /\ folderStates = EmptyMap
    /\ cfgFolders = cfg
    /\ cfgPathSet = TRUE
    /\ savedFolders = cfg
    /\ opRet = "none"
    /\ watcher = "nil"
    /\ watching = FALSE
    /\ watchedPaths = {}
    /\ excludes = EmptyMap
    /\ events = << >>
    /\ state = "idle"
    /\ syncPc = [p \in SyncProcs |-> "idle"]
    /\ syncTodo = [p \in SyncProcs |-> << >>]
    /\ syncCur = [p \in SyncProcs |-> FolderSync(<< >>, NoPath, << >>, FALSE, FALSE)]
    /\ walkTodo = [p \in SyncProcs |-> << >>]
    /\ dlTodo = [p \in SyncProcs |-> << >>]
    /\ dlLocal = [p \in SyncProcs |-> EmptyMap]
    /\ dlErr = "none"
    /\ lastCtl = "none"
    /\ ticks = 0

File(mtime, content) == [mtime |-> mtime, content |-> content]
Dirs0 == {Root, R, RS, Q}

(***************************************************************************)
(* The upload pipeline alone: callers of QueueUpload, the workers, Stop.   *)
(***************************************************************************)
\* A caller of the public QueueUpload: the orchestrator, or any other client.
TaskFile == << <<"r">>, <<"a", ".", "t", "x", "t">> >>
TaskKey == << <<"a", ".", "t", "x", "t">> >>

Submit ==
    /\ nextId < MaxTasks
    /\ QueueUpload(TaskFile, TaskKey)
    /\ UNCHANGED << queueClosed, resultChan, resultClosed, ctxDone, running, wpc,
                    wtask, wres, stopPc, stopsDone, acceptedAtStop >>

Init ==
    /\ UploaderInit
    /\ ExtInit
    /\ TreeInit(Dirs0, EmptyMap)
    /\ NewSyncManager(EmptyMap)
    /\ remote = EmptyMap

PipelineStep ==
    \/ Submit
    \/ UploaderStart
    \/ \E w \in Workers : WorkerRecv(w)
    \/ \E w \in Workers, ok \in BOOLEAN : WorkerProcess(w, ok)
    \/ \E w \in Workers : WorkerSendResult(w)
    \/ \E w \in Workers : WorkerBackoff(w)
    \/ \E w \in Workers : WorkerRequeue(w)
    \/ UploaderStopCancel
    \/ UploaderStopCloseQueue
    \/ UploaderStopFinish

PipelineNext == PipelineStep /\ UNCHANGED << syncVars, extVars >>

SpecPipeline == Init /\ [][PipelineNext]_vars

\* A burst of QueueUpload calls against an uploader whose workers are not
\* draining the queue.
BurstSubmit ==
    /\ calls < QueueCap + 2
    /\ QueueUpload(TaskFile, TaskKey)
    /\ UNCHANGED << queueClosed, resultChan, resultClosed, ctxDone, running, wpc,
                    wtask, wres, stopPc, stopsDone, acceptedAtStop >>
    /\ UNCHANGED << syncVars, extVars >>

SpecBurst == Init /\ [][BurstSubmit]_vars

(***************************************************************************)
(* The sync package's orchestrator on one folder with exclude patterns:    *)
(* the user writes files, the watcher reports them, full syncs scan.       *)
(***************************************************************************)
UploaderStartOnly == UploaderStart /\ UNCHANGED << syncVars, extVars >>

EventsInit ==
    /\ UploaderInit
    /\ ExtInit
    /\ TreeInit(Dirs0, (R_a :> File(1, UserContent)) @@ (RS_c :> File(1, UserContent)))
    /\ \E enabled \in BOOLEAN :
           NewSyncManager(id_f1 :> SyncFolder(R, id_f1, << p_bad, p_tmp >>, enabled))
    /\ remote = EmptyMap

FullSyncStep(p) ==
    \/ FullSyncBegin(p)
    \/ FullSyncSnapshot(p)
    \/ FullSyncNext(p)
    \/ SyncFolderBegin(p)
    \/ SyncFolderWalk(p)
    \/ FullSyncFinish(p)

EventsNext ==
    \/ UploaderStartOnly
    \/ Start
    \/ \E f \in {R_a, R_b} : UserWrite(f)
    \/ WatchLoop
    \/ PeriodicTick
    \/ \E p \in SyncProcs : FullSyncStep(p)

SpecEvents == EventsInit /\ [][EventsNext]_vars

(***************************************************************************)
(* The sync package's orchestrator while its folders are added, removed,   *)
(* enabled, disabled and updated and the configuration is reloaded.        *)
(***************************************************************************)
FoldersInit ==
    /\ UploaderInit
    /\ ExtInit
    /\ TreeInit(Dirs0, (R_a :> File(1, UserContent)) @@ (Q_d :> File(1, UserContent))
                           @@ (F :> File(1, UserContent)))
    /\ NewSyncManager((id_f1 :> SyncFolder(R, id_f1, << >>, TRUE))
                       @@ (id_f2 :> SyncFolder(Q, id_f2, << >>, TRUE)))
    /\ remote = EmptyMap

\* the folder the operations are called on
GivenIds == {id_f1}

\* the paths given to AddFolder and UpdateFolder: directories, a path that
\* does not exist, a regular file, the empty string
GivenPaths == {R, Q, M, F, NoPath}
GivenUpdates ==
    {FolderSync(<< >>, path, << >>, FALSE, enabled) : path \in {NoPath, RS, M}, enabled \in BOOLEAN}

FolderOp ==
    \/ \E id \in GivenIds, path \in GivenPaths, enabled \in BOOLEAN :
           AddFolder(id, path, << >>, FALSE, enabled, TRUE)
    \/ \E id \in GivenIds : RemoveFolder(id, TRUE)
    \/ \E id \in GivenIds : EnableFolder(id, TRUE)
    \/ \E id \in GivenIds : DisableFolder(id, TRUE)
    \/ \E id \in GivenIds, update \in GivenUpdates : UpdateFolder(id, update, TRUE)
    \/ ReloadConfiguration

FoldersNext ==
    \/ UploaderStartOnly
    \/ Start
    \/ FolderOp
    \/ UserWrite(Q_d)
    \/ WatchLoop
    \/ FullSyncStep("initial")

SpecFolders == FoldersInit /\ [][FoldersNext]_vars

(***************************************************************************)
(* The syncmanager package's orchestrator while its folders are added,     *)
(* removed, enabled, disabled and updated.                                 *)
(***************************************************************************)
ManagerInit ==
    /\ UploaderInit
    /\ ExtInit
    /\ TreeInit(Dirs0, F :> File(1, UserContent))
    /\ syncmanager_NewSyncManager(id_f1 :> SyncFolder(R, id_f1, << >>, TRUE))
    /\ remote = EmptyMap

ManagerNext ==
    \/ syncmanager_Start
    \/ \E id \in FolderIds, path \in GivenPaths, writeOk \in BOOLEAN :
           syncmanager_AddFolder(id, path, << >>, writeOk)
    \/ \E id \in FolderIds, writeOk \in BOOLEAN : syncmanager_RemoveFolder(id, writeOk)
    \/ \E id \in FolderIds : syncmanager_EnableFolder(id)
    \/ \E id \in FolderIds : syncmanager_DisableFolder(id)
    \/ \E id \in FolderIds, path \in {R, Q}, enabled \in BOOLEAN, writeOk \in BOOLEAN :
           syncmanager_UpdateFolderConfig(id, path, << >>, enabled, writeOk)

SpecManager == ManagerInit /\ [][ManagerNext]_vars

(***************************************************************************)
(* The sync package's orchestrator on one folder that is switched to       *)
(* two-way sync, against a remote store that holds two objects for it.     *)
(***************************************************************************)
RemoteObject(lastModified, content) == [LastModified |-> lastModified, content |-> content]
RemoteContent == "remote"
Key_a == id_f1 \o << Slash >> \o n_a_txt
Key_c == id_f1 \o << Slash >> \o n_s \o << Slash >> \o n_c_txt

TwoWayInit ==
    /\ UploaderInit
    /\ ExtInit
    /\ \E files \in {EmptyMap, R_a :> File(1, UserContent), R_a :> File(2, UserContent)} :
           TreeInit({Root, R}, files)
    /\ NewSyncManager(id_f1 :> SyncFolder(R, id_f1, << >>, TRUE))
    /\ remote = (Key_a :> RemoteObject(2, RemoteContent)) @@ (Key_c :> RemoteObject(2, RemoteContent))

TwoWayNext ==
    \/ \E twoWay \in BOOLEAN :
           UpdateFolder(id_f1, FolderSync(<< >>, NoPath, << >>, twoWay, TRUE), TRUE)
    \/ Start
    \/ FullSyncStep("initial")
    \/ \E listOk \in BOOLEAN : DownloadList("initial", listOk)
    \/ \E dlOk \in BOOLEAN : DownloadStep("initial", dlOk)
    \/ UserWrite(R_a)
    \/ WatchLoop

SpecTwoWay == TwoWayInit /\ [][TwoWayNext]_vars

(***************************************************************************)
(* The sync package's orchestrator paused and resumed while the initial    *)
(* and the periodic full sync run.                                         *)
(***************************************************************************)
PauseInit ==
    /\ UploaderInit
    /\ ExtInit
    /\ TreeInit(Dirs0, R_a :> File(1, UserContent))
    /\ NewSyncManager(id_f1 :> SyncFolder(R, id_f1, << >>, TRUE))
    /\ remote = EmptyMap

PauseNext ==
    \/ UploaderStartOnly
    \/ Start
    \/ PauseSync
    \/ ResumeSync
    \/ PeriodicTick
    \/ \E p \in SyncProcs : FullSyncStep(p)

SpecPause == PauseInit /\ [][PauseNext]_vars

(***************************************************************************)
(* The sync package's orchestrator on one folder, with and without exclude *)
(* patterns, while the user creates a subdirectory and a file in it.       *)
(***************************************************************************)
WatchInit ==
    /\ UploaderInit
    /\ ExtInit
    /\ TreeInit({Root, R, Q}, R_a :> File(1, UserContent))
    /\ \E patterns \in {<< >>, << p_tmp >>, << p_s >>} :
           NewSyncManager(id_f1 :> SyncFolder(R, id_f1, patterns, TRUE))
    /\ remote = EmptyMap

WatchNext ==
    \/ UploaderStartOnly
    \/ Start
    \/ UserMkdir(RS)
    \/ UserWrite(RS_c)
    \/ WatchLoop
    \/ FullSyncStep("initial")

SpecWatch == WatchInit /\ [][WatchNext]_vars

(***************************************************************************)
(* The agent's main program on one one-way folder: the uploader is started, *)
(* then the orchestrator, whose initial full sync scans a tree that does   *)
(* not change.  No worker takes a task, so taskQueue holds every task      *)
(* that was queued.                                                        *)
(***************************************************************************)
\* main: syncManager.Start() is called after uploaderInstance.Start()
MainStart == running /\ Start

ScanFiles == {R_a, R_b, RS_c, Q_d}

ScanInit ==
    /\ UploaderInit
    /\ ExtInit
    /\ \E present \in SUBSET ScanFiles :
           TreeInit(Dirs0, [f \in present |-> File(1, UserContent)])
    /\ \E patterns \in {<< >>, << p_bad, p_tmp >>, << p_s >>} :
           NewSyncManager(id_f1 :> SyncFolder(R, id_f1, patterns, TRUE))
    /\ remote = EmptyMap

ScanNext ==
    \/ UploaderStartOnly
    \/ MainStart
    \/ FullSyncStep("initial")

SpecScan == ScanInit /\ [][ScanNext]_vars

(***************************************************************************)
(* The watcher's dispatch loop, step by step, while handlers are           *)
(* registered and the user creates a directory and a file.                 *)
(***************************************************************************)
DispatchInit ==
    /\ UploaderInit
    /\ ExtInit
    /\ TreeInit({Root, R}, EmptyMap)
    /\ NewSyncManager(id_f1 :> SyncFolder(R, id_f1, << >>, TRUE))
    /\ remote = EmptyMap

DispatchNext ==
    \/ Start
    \/ \E h \in HandlerNames : AddHandler(h)
    \/ UserMkdir(RS)
    \/ UserWrite(R_a)
    \/ WatchTake
    \/ HandlerCall

SpecDispatch == DispatchInit /\ [][DispatchNext]_vars

(***************************************************************************)
(* The upload pipeline with a full queue: callers fill the queue, the      *)
(* uploader is started on the full queue, the callers fill every slot the  *)
(* workers free, and a consumer reads the results.  The workers are        *)
(* followed as far as the task numbered MaxRecv.                           *)
(***************************************************************************)
\* a caller of QueueUpload that finds room in the queue
FillSubmit ==
    /\ nextId < QueueCap + MaxConcurrency
    /\ Len(taskQueue) < QueueCap
    /\ QueueUpload(TaskFile, TaskKey)
    /\ UNCHANGED << queueClosed, resultChan, resultClosed, ctxDone, running, wpc,
                    wtask, wres, stopPc, stopsDone, acceptedAtStop >>

\* Start is called when the queue is full
LateStart == Len(taskQueue) = QueueCap /\ UploaderStart

\* the next task of the queue is beyond the tasks the workers are followed to
Horizon == taskQueue # << >> /\ Head(taskQueue).id > MaxRecv

HorizonRecv(w) == ~Horizon /\ WorkerRecv(w)

\* the reader of Results() takes a result
ResultsRecv ==
    /\ resultChan # << >>
    /\ resultChan' = Tail(resultChan)
    /\ UNCHANGED << taskQueue, queueClosed, resultClosed, ctxDone, running, wpc, wtask, wres,
                    stopPc, panicked, lastRet, nextId, attempts, stopsDone, calls, acceptedAtStop >>

\* the steps of worker w
WorkerStep(w) ==
    \/ HorizonRecv(w)
    \/ \E ok \in BOOLEAN : WorkerProcess(w, ok)
    \/ WorkerSendResult(w)
    \/ WorkerBackoff(w)
    \/ WorkerRequeue(w)

RequeueStep ==
    \/ FillSubmit
    \/ LateStart
    \/ \E w \in Workers : HorizonRecv(w)
    \/ \E w \in Workers, ok \in BOOLEAN : WorkerProcess(w, ok)
    \/ \E w \in Workers : WorkerSendResult(w)
    \/ \E w \in Workers : WorkerBackoff(w)
    \/ \E w \in Workers : WorkerRequeue(w)
    \/ ResultsRecv

RequeueNext == RequeueStep /\ UNCHANGED << syncVars, extVars >>

\* every worker goroutine is scheduled, and so is the reader of the results
SpecRequeue ==
    /\ Init
    /\ [][RequeueNext]_vars
    /\ \A w \in Workers : WF_vars(WorkerStep(w) /\ UNCHANGED << syncVars, extVars >>)
    /\ WF_vars(ResultsRecv /\ UNCHANGED << syncVars, extVars >>)

(***************************************************************************)
(* The agent as main() runs it: the uploader is started, then the          *)
(* orchestrator, and the orchestrator is stopped at some moment of the     *)
(* initial and the periodic full sync.                                     *)
(***************************************************************************)
StopInit ==
    /\ UploaderInit
    /\ ExtInit
    /\ TreeInit(Dirs0, (R_a :> File(1, UserContent)) @@ (R_b :> File(1, UserContent)))
    /\ NewSyncManager(id_f1 :> SyncFolder(R, id_f1, << >>, TRUE))
    /\ remote = EmptyMap

StopNext ==
    \/ UploaderStartOnly
    \/ MainStart
    \/ MainStop
    \/ PeriodicTick
    \/ \E p \in SyncProcs : FullSyncStep(p)

SpecStop == StopInit /\ [][StopNext]_vars

(***************************************************************************)
(* The sync package's orchestrator while one folder is updated: the id is  *)
(* the id of a folder and the configuration can be written, so an update   *)
(* fails only when its new path is refused.                                *)
(***************************************************************************)
UpdateInit ==
    /\ UploaderInit
    /\ ExtInit
    /\ TreeInit(Dirs0, (R_a :> File(1, UserContent)) @@ (F :> File(1, UserContent)))
    /\ \E enabled \in BOOLEAN :
           NewSyncManager(id_f1 :> SyncFolder(R, id_f1, << p_tmp >>, enabled))
    /\ remote = EmptyMap

\* the updates UpdateFolder is given: no new path, a directory, a path that
\* does not exist, a regular file
UpdatesGiven ==
    {FolderSync(<< >>, path, patterns, twoWay, enabled) :
        path \in {NoPath, RS, M, F}, patterns \in {<< >>, << p_tmp >>},
        twoWay \in BOOLEAN, enabled \in BOOLEAN}

UpdateNext ==
    \/ UploaderStartOnly
    \/ Start
    \/ \E update \in UpdatesGiven : UpdateFolder(id_f1, update, TRUE)
    \/ FullSyncStep("initial")

SpecUpdate == UpdateInit /\ [][UpdateNext]_vars

(***************************************************************************)
(* The sync package's orchestrator while a folder of the configuration     *)
(* that is disabled is enabled: its path is a directory, a path that does  *)
(* not exist, or a regular file.                                           *)
(***************************************************************************)
EnableInit ==
    /\ UploaderInit
    /\ ExtInit
    /\ TreeInit(Dirs0, (R_a :> File(1, UserContent)) @@ (F :> File(1, UserContent)))
    /\ \E path \in {R, M, F}, patterns \in {<< >>, << p_tmp >>} :
           NewSyncManager(id_f1 :> SyncFolder(path, id_f1, patterns, FALSE))
    /\ remote = EmptyMap

EnableNext ==
    \/ UploaderStartOnly
    \/ Start
    \/ EnableFolder(id_f1, TRUE)
    \/ UserWrite(R_b)
    \/ WatchLoop
    \/ FullSyncStep("initial")

SpecEnable == EnableInit /\ [][EnableNext]_vars

(***************************************************************************)
(* The sync package's orchestrator with two folders, /r and /q, while the  *)
(* folder at /r is disabled, enabled and removed: every RemovePath of this *)
(* specification is RemovePath("/r").                                      *)
(***************************************************************************)
RemoveInit ==
    /\ UploaderInit
    /\ ExtInit
    /\ TreeInit(Dirs0, (R_a :> File(1, UserContent)) @@ (Q_d :> File(1, UserContent)))
    /\ \E pr \in {<< >>, << p_tmp >>}, pq \in {<< >>, << p_tmp >>} :
           NewSyncManager((id_f1 :> SyncFolder(R, id_f1, pr, TRUE))
                           @@ (id_f2 :> SyncFolder(Q, id_f2, pq, TRUE)))
    /\ remote = EmptyMap

RemoveNext ==
    \/ UploaderStartOnly
    \/ Start
    \/ DisableFolder(id_f1, TRUE)
    \/ EnableFolder(id_f1, TRUE)
    \/ RemoveFolder(id_f1, TRUE)
    \/ FullSyncStep("initial")

SpecRemove == RemoveInit /\ [][RemoveNext]_vars

(***************************************************************************)
(* The sync package's orchestrator with two enabled folders, /r and /q,    *)
(* while the user writes a file in one of them and the watch loop hands    *)
(* the events to handleFileEvent.                                          *)
(***************************************************************************)
AttributeInit ==
    /\ UploaderInit
    /\ ExtInit
    /\ \E fs \in SUBSET {R_a, RS_c, Q_d} :
           TreeInit(Dirs0, [f \in fs |-> File(1, UserContent)])
    /\ \E enabled \in BOOLEAN :
           NewSyncManager((id_f1 :> SyncFolder(R, id_f1, << >>, enabled))
                           @@ (id_f2 :> SyncFolder(Q, id_f2, << >>, TRUE)))
    /\ remote = EmptyMap

AttributeNext ==
    \/ UploaderStartOnly
    \/ MainStart
    \/ \E f \in {R_a, RS_c, Q_d} : UserWrite(f)
    \/ WatchLoop

SpecAttribute == AttributeInit /\ [][AttributeNext]_vars

(***************************************************************************)
(* The upload pipeline as the agent runs it: nothing in the program calls  *)
(* Results(), so the results stay in the stream.  A caller queues one file *)
(* at a time, when the pipeline is idle, and every upload fails, so each   *)
(* task publishes MaxRetries + 1 results.                                  *)
(***************************************************************************)
\* enough tasks for more than ResultCap results
PublishTasks == (ResultCap \div (MaxRetries + 1)) + 1

IdleSubmit ==
    /\ nextId < PublishTasks
    /\ taskQueue = << >>
    /\ \A w \in Workers : wpc[w] = "recv"
    /\ QueueUpload(TaskFile, TaskKey)
    /\ UNCHANGED << queueClosed, resultChan, resultClosed, ctxDone, running, wpc,
                    wtask, wres, stopPc, stopsDone, acceptedAtStop >>

\* the steps of worker w when every storage call returns a failure
FailingStep(w) ==
    \/ WorkerRecv(w)
    \/ WorkerProcess(w, FALSE)
    \/ WorkerSendResult(w)
    \/ WorkerBackoff(w)
    \/ WorkerRequeue(w)

PublishStep ==
    \/ UploaderStart
    \/ IdleSubmit
    \/ \E w \in Workers : WorkerRecv(w)
    \/ \E w \in Workers : WorkerProcess(w, FALSE)
    \/ \E w \in Workers : WorkerSendResult(w)
    \/ \E w \in Workers : WorkerBackoff(w)
    \/ \E w \in Workers : WorkerRequeue(w)

PublishNext == PublishStep /\ UNCHANGED << syncVars, extVars >>

\* every worker goroutine is scheduled
SpecPublish ==
    /\ Init
    /\ [][PublishNext]_vars
    /\ \A w \in Workers : WF_vars(FailingStep(w) /\ UNCHANGED << syncVars, extVars >>)

(***************************************************************************)
(* The sync package's orchestrator while SyncNow is called for one folder, *)
(* before, during or after the initial full sync.                          *)
(***************************************************************************)
SyncNowInit ==
    /\ UploaderInit
    /\ ExtInit
    /\ \E fs \in SUBSET {R_a, R_b} :
           TreeInit(Dirs0, [f \in fs |-> File(1, UserContent)])
    /\ \E patterns \in {<< >>, << p_tmp >>} :
           NewSyncManager(id_f1 :> SyncFolder(R, id_f1, patterns, TRUE))
    /\ remote = EmptyMap

SyncNowNext ==
    \/ UploaderStartOnly
    \/ MainStart
    \/ \E id \in {id_f1, id_f2} : nextId < MaxNowTasks /\ SyncNowFolder(id)
    \/ SyncFolderBegin("now")
    \/ SyncFolderWalk("now")
    \/ SyncNowReturn
    \/ FullSyncStep("initial")

SpecSyncNow == SyncNowInit /\ [][SyncNowNext]_vars

(***************************************************************************)
(* One full sync over two enabled folders: f1 on r, which may be two-way   *)
(* and whose directory may be missing, with two remote objects, and f2 on  *)
(* q.  The listing and each download may fail.                             *)
(***************************************************************************)
FullSyncInit ==
    /\ UploaderInit
    /\ ExtInit
    /\ \E dirs \in {{Root, R, Q}, {Root, Q}} :
           TreeInit(dirs, Q_d :> File(1, UserContent))
    /\ NewSyncManager((id_f1 :> SyncFolder(R, id_f1, << >>, TRUE)) @@
                      (id_f2 :> SyncFolder(Q, id_f2, << >>, TRUE)))
    /\ remote = (Key_a :> RemoteObject(2, RemoteContent)) @@ (Key_c :> RemoteObject(2, RemoteContent))

FullSyncNext1 ==
    \/ UploaderStartOnly
    \/ watcher = "nil" /\ UpdateFolder(id_f1, FolderSync(<< >>, NoPath, << >>, TRUE, TRUE), TRUE)
    \/ MainStart
    \/ FullSyncStep("initial")
    \/ \E listOk \in BOOLEAN : DownloadList("initial", listOk)
    \/ \E dlOk \in BOOLEAN : DownloadStep("initial", dlOk)

SpecFullSync == FullSyncInit /\ [][FullSyncNext1]_vars

(***************************************************************************)
(* The watcher's dispatch loop, step by step, while handlers are           *)
(* registered, the user creates a directory and a file, and the            *)
(* orchestrator is stopped, which stops the watcher.                       *)
(***************************************************************************)
WatcherStopNext ==
    \/ DispatchNext
    \/ MainStop

SpecWatcherStop == DispatchInit /\ [][WatcherStopNext]_vars

(***************************************************************************)
(* Both orchestrators while the folder f2 is added, with every kind of     *)
(* path, a configuration file that can or cannot be written, and removed   *)
(* again.                                                                  *)
(***************************************************************************)
AddInit ==
    /\ UploaderInit
    /\ ExtInit
    /\ TreeInit(Dirs0, F :> File(1, UserContent))
    /\ NewSyncManager(id_f1 :> SyncFolder(R, id_f1, << >>, TRUE))
    /\ remote = EmptyMap

AddNext ==
    \/ Start
    \/ \E path \in GivenPaths, patterns \in {<< >>, << p_tmp >>}, enabled \in BOOLEAN, writeOk \in BOOLEAN :
           AddFolder(id_f2, path, patterns, FALSE, enabled, writeOk)
    \/ RemoveFolder(id_f2, TRUE)
    \/ \E path \in GivenPaths, writeOk \in BOOLEAN :
           syncmanager_AddFolder(id_f2, path, << >>, writeOk)
    \/ syncmanager_RemoveFolder(id_f2, TRUE)

SpecAdd == AddInit /\ [][AddNext]_vars

(***************************************************************************)
(* The sync package's orchestrator with the folder f1 on /r, while the     *)
(* user edits the configuration file (f1 moved to /q, or f1 disabled) and  *)
(* the configuration of the started orchestrator is reloaded.              *)
(***************************************************************************)
ReloadInit ==
    /\ UploaderInit
    /\ ExtInit
    /\ TreeInit(Dirs0, (R_a :> File(1, UserContent)) @@ (Q_d :> File(1, UserContent)))
    /\ NewSyncManager(id_f1 :> SyncFolder(R, id_f1, << >>, TRUE))
    /\ remote = EmptyMap

\* what the user can make of the configuration file
EditedConfigs ==
    {id_f1 :> SyncFolder(Q, id_f1, << >>, TRUE), id_f1 :> SyncFolder(R, id_f1, << >>, FALSE)}

\* the user writes the configuration file
EditConfigFile(cfg) ==
    /\ savedFolders # cfg
    /\ savedFolders' = cfg
    /\ UNCHANGED << upVars, fsVars, watchVars, scanVars, state, lastCtl, remote, extVars,
                    folders, folderStates, cfgFolders, cfgPathSet, opRet >>

ReloadNext ==
    \/ UploaderStartOnly
    \/ MainStart
    \/ \E cfg \in EditedConfigs : EditConfigFile(cfg)
    \/ watcher # "nil" /\ ReloadConfiguration
    \/ FullSyncStep("initial")
    \/ UserWrite(R_a)
    \/ WatchLoop

SpecReload == ReloadInit /\ [][ReloadNext]_vars

(***************************************************************************)
(* The syncmanager package's orchestrator with two enabled folders: Start  *)
(* launches the initial SyncAll and periodicSync, and SyncAll is called    *)
(* from outside too.  The folder table does not change.                    *)
(***************************************************************************)
SyncAllInit ==
    /\ UploaderInit
    /\ ExtInit
    /\ TreeInit(Dirs0, (R_a :> File(1, UserContent)) @@ (Q_d :> File(1, UserContent)))
    /\ syncmanager_NewSyncManager((id_f1 :> SyncFolder(R, id_f1, << >>, TRUE))
                                   @@ (id_f2 :> SyncFolder(Q, id_f2, << >>, TRUE)))
    /\ remote = EmptyMap

SyncAllNext ==
    \/ syncmanager_Start
    \/ \E c \in AllCallers : SyncAllEnter(c)
    \/ \E c \in AllCallers : SyncAllSpawn(c)
    \/ \E c \in AllCallers, id \in FolderIds : SyncAllFolderBegin(c, id)
    \/ \E c \in AllCallers, id \in FolderIds : SyncAllFolderEnd(c, id)
    \/ \E c \in AllCallers : SyncAllReturn(c)

SpecSyncAll == SyncAllInit /\ [][SyncAllNext]_vars

(***************************************************************************)
(* The throttled reader alone: Read calls with buffers of every size,      *)
(* an underlying reader that returns any part of what is asked, and time   *)
(* passing between the calls.                                              *)
(***************************************************************************)
ThrottleInit ==
    /\ UploaderInit
    /\ TreeInit(Dirs0, EmptyMap)
    /\ NewSyncManager(EmptyMap)
    /\ remote = EmptyMap
    /\ \E quota \in 1 .. MaxQuota : newThrottledReader(quota)
    /\ NewFileWatcher
    /\ NotStopped
    /\ NewStats
    /\ NewSyncAll

ThrottleNext ==
    \/ \E len \in 0 .. MaxBuf, n \in 0 .. MaxBuf, late \in 0 .. 1 : Read(len, n, late)
    \/ Tick

SpecThrottle == ThrottleInit /\ [][ThrottleNext]_vars

(***************************************************************************)
(* Claims about the upload pipeline.                                       *)
(***************************************************************************)
\* The results published so far for task id, oldest first (nothing reads
\* Results() in the program, so resultChan holds every result sent).
Published(id) == SelectSeq(resultChan, LAMBDA r : r.id = id)

\* A result after which the worker does not retry.
Terminal(r) == r.Success \/ r.RetryCount >= MaxRetries

AllFailed(id) == \A i \in 1 .. Len(attempts[id]) : ~attempts[id][i]

\* C1: QueueUpload never blocks. Called on the (open) task queue holding
\* fewer than 1000 tasks it appends the task and returns nil; called when the
\* queue holds 1000 tasks it returns the queue-full error and leaves the queue
\* unchanged; the queue never holds more than 1000 tasks.
C1_QueueUploadBounded ==
    /\ [](Len(taskQueue) <= QueueCap)
    /\ [][ (calls' = calls + 1 /\ ~queueClosed) =>
             IF Len(taskQueue) < QueueCap
             THEN /\ lastRet' = "nil"
                  /\ Len(taskQueue') = Len(taskQueue) + 1
                  /\ SubSeq(taskQueue', 1, Len(taskQueue)) = taskQueue
                  /\ taskQueue'[Len(taskQueue')].FilePath = TaskFile
                  /\ taskQueue'[Len(taskQueue')].RetryCount = 0
             ELSE /\ lastRet' = "queue full"
                  /\ taskQueue' = taskQueue ]_vars

\* C1 witness: the queue is full and a call has been refused.
C1_Witness == Len(taskQueue) = QueueCap /\ lastRet = "queue full"

\* C2 as stated: a task is attempted at most three times in total.
C2_AtMostThreeAttempts ==
    \A id \in 1 .. nextId : Len(attempts[id]) <= 3

\* C2 amended: a task whose upload fails on every attempt is attempted at most
\* four times in total (the first attempt and three retries); after its fourth
\* failed attempt it is in nobody's hands any more, and the last result
\* published for it has success = false.
C2_AtMostFourAttempts ==
    \A id \in 1 .. nextId :
        /\ Len(attempts[id]) <= MaxRetries + 1
        /\ (AllFailed(id) /\ Published(id) # << >>) =>
               ~Published(id)[Len(Published(id))].Success
        /\ (Len(attempts[id]) = MaxRetries + 1 /\ Len(Published(id)) = MaxRetries + 1) =>
               /\ \A i \in 1 .. Len(taskQueue) : taskQueue[i].id # id
               /\ \A w \in Workers : wtask[w].id # id

\* C2 witness: a task has failed four times and its fourth result is out.
C2_Witness ==
    \E id \in 1 .. nextId :
        /\ Len(attempts[id]) = MaxRetries + 1
        /\ AllFailed(id)
        /\ Len(Published(id)) = MaxRetries + 1

\* C3 as stated: the result stream carries at most one result per accepted
\* task, and only terminal ones (no result for an attempt that is retried).
C3_OnlyTerminalResults ==
    \A id \in 1 .. nextId :
        /\ Len(Published(id)) <= 1
        /\ \A i \in 1 .. Len(Published(id)) : Terminal(Published(id)[i])

\* C4 as stated: when Stop has returned, every task accepted before Stop
\* began has a terminal result on the result stream.
C4_NoTaskLostByStop ==
    (stopsDone >= 1) =>
        \A id \in 1 .. acceptedAtStop :
            \E i \in 1 .. Len(Published(id)) : Terminal(Published(id)[i])

\* C5: For every folder and every file whose folder-relative path matches one
\* of the folder's exclude patterns, no upload task is ever created for that
\* file, neither by a full scan nor by the handling of a live Create or
\* Modify event: whenever a task is accepted into the queue, its file is not
\* a file of a registered folder that the folder's patterns exclude.
C5_NoUploadForExcluded ==
    [][nextId' = nextId + 1 =>
         LET task == taskQueue'[Len(taskQueue')]
         IN  \A id \in DOMAIN folders :
                 Under(task.FilePath, folders[id].Path) =>
                     ~ShouldExclude(Rel(folders[id].Path, task.FilePath),
                                    folders[id].ExcludePatterns)]_vars

\* a disabled folder whose path is not inside an enabled folder
Covered(id) ==
    \E e \in DOMAIN folders :
        e # id /\ folders[e].Enabled /\ Under(folders[id].Path, folders[e].Path)
Quiet(id) == ~folders[id].Enabled /\ ~Covered(id)

\* C6: After any sequence of addFolder, removeFolder, enableFolder,
\* disableFolder, updateFolder and configuration reload, every folder with
\* enabled = false has no watch registered on its path or on any directory
\* beneath it, and neither change events nor initial or periodic full syncs
\* enqueue an upload for a file under it.  (A disabled folder that lies
\* inside an enabled one is left out: its files are the enabled folder's.)
C6_DisabledFolderQuiet ==
    /\ [](\A id \in DOMAIN folders :
              Quiet(id) => \A w \in watchedPaths : ~Under(w, folders[id].Path))
    /\ [][nextId' = nextId + 1 =>
            \A id \in DOMAIN folders :
                Quiet(id) => ~Under(taskQueue'[Len(taskQueue')].FilePath, folders[id].Path)]_vars

\* the registered folders of either orchestrator, and their paths
Registered == (DOMAIN folders) \cup (DOMAIN folderStates)
PathOf(id) == IF id \in DOMAIN folders THEN folders[id].Path ELSE folderStates[id].LocalPath

\* C7: addFolder called with a local path that does not exist or is not a
\* directory returns an error, and afterwards the folder registry, the
\* watcher's registered set and the persisted configuration are the same as
\* before the call (the path is not created): a step that puts a new folder
\* into the registry puts one whose path was a directory before the step,
\* and creates no directory.
C7_AddFolderRejectsBadPath ==
    [][\A id \in Registered' \ Registered :
           PathOf(id)' \in fsDirs /\ fsDirs' = fsDirs]_vars

\* C8: addFolder called with a local path that is already registered under a
\* different folder id returns an error and leaves the folder registry
\* unchanged: a step that puts a new folder into the registry puts one whose
\* path no folder registered before the step has.
C8_AddFolderRejectsDuplicatePath ==
    [][\A id \in Registered' \ Registered :
           \A other \in Registered : PathOf(other) # PathOf(id)']_vars

C10_PauseResumeIdle ==
    [][/\ (lastCtl = "pause" /\ lastCtl' = "resume") => state' = "idle"
       /\ lastCtl' # lastCtl => UNCHANGED << scanVars, taskQueue, nextId >>]_vars

(***************************************************************************)
(* Claims about the throttled reader.                                      *)
(***************************************************************************)
\* C11: For a throttled reader with quota N > 0 bytes per second, the bytes
\* delivered by Read since the last window reset never exceed N: a Read that
\* does not reset the window returns at most N minus the bytes already
\* delivered in it, and once N has been delivered the next Read returns only
\* when the one-second window is over and has reset the counter before it
\* delivers more.
C11_ThrottleQuota ==
    /\ [](bytesThisSec <= bytesPerSec)
    /\ [][reads' = reads + 1 =>
            /\ lastTimestamp' = lastTimestamp => readRet'.n <= bytesPerSec - bytesThisSec
            /\ bytesThisSec >= bytesPerSec =>
                   /\ clock' >= lastTimestamp + Second
                   /\ lastTimestamp' > lastTimestamp
                   /\ bytesThisSec' = readRet'.n]_vars

\* C11 witness: the quota was delivered, a Read reset the window, and the
\* quota has been delivered again.
C11_Witness ==
    /\ reads >= 3
    /\ lastTimestamp >= Second
    /\ bytesThisSec = bytesPerSec
    /\ readRet.n > 0

(***************************************************************************)
(* Claims about the watcher and the full sync.                             *)
(***************************************************************************)
\* the roots registered with WatchPath(recursive = true): the paths of the
\* enabled folders once Start has run
Roots == {id \in DOMAIN folders : watcher = "new" /\ folders[id].Enabled}

\* C12: For every root registered with WatchPath(recursive = true), whether
\* its exclude list is empty or not, when the watch loop takes a Create event
\* for a new directory under that root whose root-relative path matches no
\* exclude pattern, the directory is in the watcher's registered set when the
\* handlers have been called.
C12_NewDirectoryWatched ==
    [][(/\ watching
        /\ events # << >>
        /\ events' = Tail(events)
        /\ Head(events).Op = "Create"
        /\ Head(events).Name \in fsDirs
        /\ \E id \in Roots :
               /\ Head(events).Name # folders[id].Path
               /\ Under(Head(events).Name, folders[id].Path)
               /\ ~ShouldExclude(Rel(folders[id].Path, Head(events).Name),
                                 folders[id].ExcludePatterns))
           => Head(events).Name \in watchedPaths']_vars

\* the initial full sync has run to its end
ScanDone == watcher = "new" /\ syncPc["initial"] = "idle"

\* the tasks queued for file f
TasksFor(f) == {i \in DOMAIN taskQueue : taskQueue[i].FilePath = f}

\* the path of f below the folder at path, written with forward slashes
SlashKey(path, f) == JoinSlash(SubSeq(f, Len(path) + 1, Len(f)))

Namespaces(id) ==
    {id} \cup (IF id \in DOMAIN cfgFolders THEN {cfgFolders[id].RemotePath} ELSE {})

\* C14: Every upload task created for a file of a folder has a storage key of
\* the form {remoteNamespace}/{relativePath}: the folder's remote namespace,
\* a forward slash, then the file's folder-relative path with forward
\* slashes.
C14_KeyHasNamespace ==
    [][nextId' = nextId + 1 =>
         LET task == taskQueue'[Len(taskQueue')]
         IN  \E id \in DOMAIN folders : \E ns \in Namespaces(id) :
                 /\ Under(task.FilePath, folders[id].Path)
                 /\ task.Key = ns \o << Slash >> \o SlashKey(folders[id].Path, task.FilePath)]_vars

\* the handlers called for event number e, in the order of the calls
Called(e) ==
    LET calls0 == SelectSeq(hLog, LAMBDA c : c.ev = e)
    IN  [i \in 1 .. Len(calls0) |-> calls0[i].h]

EnabledOf(id) == IF id \in DOMAIN folders THEN folders[id].Enabled ELSE folderStates[id].Enabled

\* the watcher is running and the path of every enabled folder is registered
WatchConsistent ==
    watching => \A id \in Registered : EnabledOf(id) => PathOf(id) \in watchedPaths

\* C16: After any sequence of successful addFolder, removeFolder,
\* enableFolder, disableFolder and updateFolder calls made while the watcher
\* is running, the local path of every folder that exists and is enabled is
\* in the watcher's registered set: a call that returns nil in a state where
\* this holds leaves a state where it holds.
C16_EnabledFoldersWatched ==
    [][(watching /\ WatchConsistent /\ opRet' = "nil") => WatchConsistent']_vars

(***************************************************************************)
(* Claims about the termination of the pipeline and of the orchestrator.   *)
(***************************************************************************)
\* C17: No uploader worker blocks forever: provided the result stream is
\* being consumed and storage calls return, a worker that has to put a failed
\* task back into the queue while the queue is full eventually proceeds
\* (followed as far as the task numbered MaxRecv).
C17_RequeueProceeds ==
    \A w \in Workers : (wpc[w] = "requeue") ~> (wpc[w] # "requeue" \/ Horizon)

\* C18: When the orchestrator's Stop returns, the cancellation scope created
\* at Start has been cancelled, the upload pipeline's input has been closed
\* and all of its workers have exited, and no periodic loop or full sync
\* started by Start is still running.
C18_StopLeavesNothingRunning ==
    stopRet # "none" =>
        /\ smCancelled
        /\ queueClosed
        /\ \A w \in Workers : wpc[w] = "exited"
        /\ \A p \in SyncProcs : syncPc[p] = "idle"

(***************************************************************************)
(* Claims about the folder operations that are refused.                    *)
(***************************************************************************)
\* a step of a folder operation: the uploader, the file tree, the full syncs
\* and the watch loop stay where they are
OperationStep == UNCHANGED << upVars, fsVars, scanVars, state, watcher, watching, events >>

\* C19: updateFolder called with a new path that does not exist or is not a
\* directory returns an error and leaves the folder's path, exclude patterns,
\* two-way flag, enabled flag and watch registration exactly as they were
\* before the call.
C19_UpdateRefusedChangesNothing ==
    [][(OperationStep /\ opRet' = "error") =>
           UNCHANGED << folders, watchedPaths, excludes >>]_vars

\* the local path of folder id is not a directory
BadPath(id) == folders[id].Path \notin fsDirs

\* C20: enableFolder on a folder whose local path does not exist or is not a
\* directory returns an error and leaves the folder disabled, with no watch
\* registered for it.
C20_EnableRefusedLeavesDisabled ==
    [][\A id \in DOMAIN folders :
           (OperationStep /\ ~folders[id].Enabled /\ BadPath(id)) =>
               /\ opRet' = "error"
               /\ ~folders'[id].Enabled
               /\ folders[id].Path \notin watchedPaths']_vars

(***************************************************************************)
(* Claims about the watcher's RemovePath and the attribution of events.    *)
(***************************************************************************)
\* C21: RemovePath(p) changes only watches at or beneath p: every registered
\* path that is neither p nor a descendant of p is still registered
\* afterwards, and the exclude patterns of other roots are unchanged (p is
\* /r in every call).
C21_RemovePathKeepsOthers ==
    [][OperationStep =>
           /\ \A x \in watchedPaths : ~Under(x, R) => x \in watchedPaths'
           /\ \A root \in DOMAIN excludes \ {R} :
                  root \in DOMAIN excludes' /\ excludes'[root] = excludes[root]]_vars

\* C22: handleFileEvent attributes an event to a folder only when the event
\* path lies inside that folder's local path: the upload it enqueues has a
\* storage key equal to the path relative to the enabled folder that contains
\* the file, and an event whose path is inside no enabled folder enqueues
\* nothing.
C22_EventKeyInsideFolder ==
    [][nextId' = nextId + 1 =>
         LET task == taskQueue'[Len(taskQueue')]
         IN  \E id \in DOMAIN folders :
                 /\ folders[id].Enabled
                 /\ Under(task.FilePath, folders[id].Path)
                 /\ task.Key = SlashKey(folders[id].Path, task.FilePath)]_vars

(***************************************************************************)
(* Claims about Stop of the upload pipeline.                               *)
(***************************************************************************)
\* C23: Uploader.Stop closes the task queue before it waits for the workers,
\* and closes the result stream only after every worker has exited;
\* consequently no worker ever sends on a closed result stream.
C23_StopClosesInOrder ==
    /\ [](\A w \in Workers : wpc[w] = "send" => ~resultClosed)
    /\ [][(~queueClosed /\ queueClosed') => (stopPc' = "wait" /\ ~resultClosed')]_vars
    /\ [][(~resultClosed /\ resultClosed') =>
             (queueClosed /\ \A w \in Workers : wpc[w] = "exited")]_vars

\* Stop has returned after a worker had published a result
C23_Witness ==
    /\ resultClosed
    /\ stopsDone = 1
    /\ resultChan # << >>
    /\ \A w \in Workers : wpc[w] = "exited"

\* C24: Once Uploader.Stop has begun, QueueUpload accepts no new task: whether
\* it is called after Stop returned or concurrently with Stop, it returns an
\* error and never crashes the process by sending on the closed task queue.
C24_NoAcceptAfterStop ==
    [][(calls' = calls + 1 /\ ctxDone) =>
           /\ lastRet' = "queue full"
           /\ nextId' = nextId
           /\ ~panicked']_vars

\* C25: A worker that finishes its backoff wait while Stop is cancelling the
\* context and closing the task queue never sends the retried task on the
\* closed queue: a crash that is not QueueUpload's never happens while a
\* worker is at its re-enqueue step.
C25_RequeueNeverOnClosedQueue ==
    [][(~panicked /\ panicked' /\ lastRet' = lastRet) =>
           \A w \in Workers : wpc[w] # "requeue"]_vars

(***************************************************************************)
(* Claims about the retries and the results of the upload pipeline.        *)
(***************************************************************************)
\* C26: Every task's retryCount stays within 0..3: a failed attempt puts the
\* task back into the queue with retryCount increased by exactly one only
\* when retryCount was below 3, and a task that succeeded, or that failed
\* with retryCount = 3, never re-enters the queue.  A task that enters the
\* queue has a retryCount equal to the number of its attempts, all failed.
C26_RetryCountWithinCeiling ==
    /\ [](/\ \A i \in DOMAIN taskQueue : taskQueue[i].RetryCount \in 0 .. MaxRetries
          /\ \A w \in Workers : wtask[w].RetryCount \in 0 .. MaxRetries)
    /\ [][Len(taskQueue') = Len(taskQueue) + 1 =>
             LET t == taskQueue'[Len(taskQueue')]
             IN  /\ t.RetryCount = Len(attempts'[t.id])
                 /\ \A j \in 1 .. t.RetryCount : attempts'[t.id][j] = FALSE]_vars

\* a task is back in the queue after its third failed attempt
C26_Witness ==
    \E i \in DOMAIN taskQueue :
        /\ taskQueue[i].RetryCount = MaxRetries
        /\ attempts[taskQueue[i].id] = << FALSE, FALSE, FALSE >>

\* C27: Every result a worker publishes on the result stream is eventually
\* received by the orchestrator, which adds it to the upload statistics;
\* therefore a worker is never blocked forever on publishing a result, also
\* after more than 100 results have been published.
C27_PublishNeverBlocks ==
    \A w \in Workers : (wpc[w] = "send") ~> (wpc[w] # "send")

(***************************************************************************)
(* Claims about the global state of the sync package's orchestrator.       *)
(***************************************************************************)
\* the full sync p is inside syncFolder: walking, listing or downloading
Scanning(p) == syncPc[p] \in {"walk", "list", "download"}

\* C28: The global state returns to Idle only after every per-folder worker
\* has finished: there is no reachable state in which the state is Idle while
\* a folder scan started by a full sync is still running.
C28_IdleOnlyWhenNoScan ==
    state = "idle" => \A p \in SyncProcs : ~Scanning(p)

\* C30: Once PauseSync has set the state to Paused, the state stays Paused
\* until ResumeSync is called: a full sync that is running at that moment, or
\* one that the periodic timer starts later, does not overwrite Paused with
\* Scanning, Syncing or Idle.
C30_PausedUntilResume ==
    [][(state = "paused" /\ state' # "paused") =>
           (lastCtl = "pause" /\ lastCtl' = "resume")]_vars

\* C29: Whenever no folder scan is in progress and the orchestrator is not
\* paused, the global state is Idle; in particular after syncNow for a single
\* folder id has returned, with no other sync running, the state is Idle
\* again and not still Syncing.
C29_IdleWhenNothingRuns ==
    ((\A p \in SyncProcs : syncPc[p] = "idle") /\ state # "paused") => state = "idle"

(***************************************************************************)
(* Claims about failures during a full sync.                               *)
(***************************************************************************)
\* C31: If syncing one enabled folder fails during a full sync (local walk,
\* remote listing or download error), every other enabled folder is still
\* synced in that same full sync, the error counter increases by one for the
\* failed folder, and the full sync ends with the state Idle.  Here f1 is
\* the only folder that can fail: when the full sync has ended the file of
\* f2 is queued, the state is Idle, and the counter is at most one, and one
\* when the directory of f1 is missing or a download failed.
C31_FailedFolderCountedOnce ==
    ScanDone =>
        /\ TasksFor(Q_d) # {}
        /\ state = "idle"
        /\ errors <= 1
        /\ (R \notin fsDirs \/ dlErr = "error") => errors = 1

(***************************************************************************)
(* Claims about the orchestrator's lock.                                   *)
(***************************************************************************)
\* C32: Every read and every write of the folder table and of the cumulative
\* statistics happens while the orchestrator's reader/writer lock is held:
\* no change-event handler, full sync or download loop accesses them without
\* the lock while a folder-management operation may be modifying them.
C32_AccessesUnderLock ==
    \A a \in accesses : a.lock # "none"

(***************************************************************************)
(* Claims about the watcher's Stop and RemovePath.                         *)
(***************************************************************************)
\* C33: When the watcher's Stop returns, the dispatch loop has exited: no
\* handler is running and no handler is invoked for any event after Stop
\* has returned.
C33_NoHandlerAfterStop ==
    [][stopRet # "none" => hLog' = hLog]_vars

\* a folder operation that calls RemovePath("/r"): with the watcher set, the
\* enabled folder f1 is disabled or removed
RemovesR ==
    /\ OperationStep
    /\ watcher # "nil"
    /\ id_f1 \in DOMAIN folders /\ folders[id_f1].Enabled
    /\ id_f1 \in DOMAIN folders' => ~folders'[id_f1].Enabled

InExcludedDir(path, f, patterns) ==
    \E d \in fsDirs :
        /\ Under(d, path) /\ d # path
        /\ Under(f, d) /\ f # d
        /\ ShouldExclude(Rel(path, d), patterns)

\* C35: During a full scan, when a directory's folder-relative path matches an
\* exclude pattern the whole subtree of that directory is skipped: no file
\* beneath it is enqueued for upload.
C35_ExcludedDirSkipped ==
    ScanDone =>
        \A id \in {e \in DOMAIN folders : folders[e].Enabled} :
            \A f \in DOMAIN fsFiles :
                InExcludedDir(folders[id].Path, f, folders[id].ExcludePatterns)
                    => TasksFor(f) = {}

(***************************************************************************)
(* Claims about the folder operations that fail.                           *)
(***************************************************************************)
\* C36: If addFolder returns an error for any reason (validation, watch
\* registration failure or failure to persist the configuration), the folder
\* is not in the registry afterwards and no watch has been added for it; a
\* folder is in the registry only if the addFolder that introduced it
\* returned nil.
C36_FailedAddLeavesNothing ==
    [][(UNCHANGED << upVars, scanVars, state, watcher, watching >> /\ opRet' = "error") =>
           /\ DOMAIN folders' \subseteq DOMAIN folders
           /\ DOMAIN folderStates' \subseteq DOMAIN folderStates
           /\ watchedPaths' \subseteq watchedPaths]_vars

\* C37: A failed download during two-way reconciliation leaves the local file
\* as it was: if the backend's download of a remote object returns an error,
\* an existing local file at that path keeps its previous content and
\* modification time, and no empty file is left where none existed.
C37_FailedDownloadKeepsLocal ==
    [][\A p \in SyncProcs :
         (/\ syncPc[p] = "download"
          /\ dlTodo[p] # << >>
          /\ dlTodo'[p] = Tail(dlTodo[p])
          /\ dlErr' = "error")
         => fsFiles' = fsFiles]_vars

\* the first ReloadConfiguration returns
ReloadStep == OperationStep /\ opRet = "none" /\ opRet' = "nil"

\* C38: After ReloadConfiguration in which an enabled folder's local path
\* changed from P to Q, P is no longer in the watcher's registered set and Q
\* is; after a reload in which a folder became disabled, its previous path is
\* no longer watched; and the registry holds exactly the folders of the new
\* configuration (the configuration is the one the file holds).
C38_ReloadFollowsConfiguration ==
    [][ReloadStep =>
           /\ DOMAIN folders' = DOMAIN savedFolders
           /\ \A id \in DOMAIN folders \cap DOMAIN savedFolders :
                  LET P == folders[id].Path
                      new == savedFolders[id]
                  IN  (watcher # "nil" /\ folders[id].Enabled) =>
                          /\ (new.Enabled /\ new.LocalPath # P) =>
                                 (P \notin watchedPaths' /\ new.LocalPath \in watchedPaths')
                          /\ ~new.Enabled => P \notin watchedPaths']_vars

(***************************************************************************)
(* Claims about restarting the uploader.                                   *)
(***************************************************************************)
\* C39: The uploader survives any sequence of Start and Stop calls: Start
\* while running and Stop while stopped are no-ops, and the sequence Start,
\* Stop, Start, Stop never closes an already closed channel and leaves
\* running = false at the end.  Stop is never about to close a channel that
\* is closed: neither the task queue nor the result stream.
C39_StopNeverClosesTwice ==
    /\ ~(stopPc = "close" /\ queueClosed)
    /\ ~(stopPc = "wait" /\ resultClosed)

(***************************************************************************)
(* Claims about SyncAll of the syncmanager package.                        *)
(***************************************************************************)
\* the callers that are inside SyncAll
InSyncAll == {c \in AllCallers : allPc[c] # "idle"}

\* C40: At most one SyncAll runs at a time: a SyncAll called while another is
\* in progress returns the error sync already in progress without scanning
\* any folder and without changing the status, and the global status is
\* Syncing exactly while a SyncAll is in progress and Idle again when it has
\* finished.
C40_OneSyncAllAtATime ==
    /\ [](Cardinality(InSyncAll) <= 1)
    /\ [](status = (IF InSyncAll # {} THEN "syncing" ELSE "idle"))
    /\ [][(allCalls' = allCalls + 1 /\ InSyncAll # {}) =>
              /\ \E c \in AllCallers \ InSyncAll : allRet'[c] = "sync already in progress"
              /\ UNCHANGED << status, allPc, allTodo, allScan >>]_vars

\* the initial SyncAll is scanning a folder and the call made from outside
\* meanwhile has been refused
C40_Witness ==
    /\ allCalls = 2
    /\ allPc["initial"] = "wait"
    /\ allScan["initial"] # {}
    /\ allRet["api"] = "sync already in progress"
    /\ status = "syncing"

====
